---- MODULE Spec2Model ----
(***************************************************************************)
(* Model of the byteslim compression orchestration code:                   *)
(*   UniversalImageCompressor  (compressImage / compressBatch, one worker, *)
(*                              one FileReader and one 30 s timer per call)*)
(*   UniversalPPTCompressor    (JSZip extract -> image batch -> repack)    *)
(*   UniversalAudioCompressor  (main-thread decode/render/encode, batch)   *)
(*                                                                         *)
(* One run of the model is one page session that runs one batch.  The     *)
(* JavaScript event loop is modelled by its two kinds of step: a          *)
(* continuation of an already settled promise (a microtask) runs before   *)
(* any event (timer, FileReader, worker message) is handled.              *)
(***************************************************************************)
EXTENDS Integers, Sequences, FiniteSets, TLC

\* ---------------------------------------------------------------- bounds
MaxFiles == 2
MaxSize == 2
MaxMembers == 2
MaxDim == 3

\* ---------------------------------------------------------------- state
VARIABLES
  mode,        \* which compressor this session uses: "image", "ppt", "audio"
  env,         \* "browser", "server" (typeof window === 'undefined'), "blocked" (new Worker throws)
  worker,      \* UniversalImageCompressor.worker: "null" or "live"
  inv,         \* one record per compressImage invocation, in call order
  listeners,   \* invocations whose handleMessage is attached to the worker
  inflight,    \* requests posted to the worker and not yet answered
  imgFiles,    \* compressBatch: files
  imgIdx,      \* compressBatch: i
  imgResults,  \* compressBatch: results
  imgPc,       \* compressBatch: "idle", "loop", "await", "done"
  imgCur,      \* invocation the batch is awaiting
  imgPromise,  \* the promise of that invocation
  pptFiles,    \* UniversalPPTCompressor.compressBatch: files
  pptIdx,      \* UniversalPPTCompressor.compressBatch: i
  pptResults,  \* UniversalPPTCompressor.compressBatch: results
  pptPc,       \* "idle", "loop", "extract", "images", "repack", "resume", "done"
  pptMedia,    \* compressPPT: mediaFiles
  pptCompressed, \* compressPPT: compressedMedia
  pptOutcome,  \* the settled promise of compressPPT: a result, or an error thrown
  lamejs,      \* UniversalAudioCompressor.lamejs: "null" or "loaded"
  aFiles,      \* UniversalAudioCompressor.compressBatch: files
  aIdx,        \* UniversalAudioCompressor.compressBatch: i
  aResults,    \* UniversalAudioCompressor.compressBatch: results
  aPc,         \* "idle", "loop", "init", "read", "decode", "render", "resume", "done"
  aHung,       \* the operation compressAudio awaits will never settle
  aPromise,    \* the promise of the compressAudio call being awaited
  aSettings,   \* compressAudio: compressionSettings of the call under way
  options,     \* this.options of the image, the PPTX and the audio compressor
  settings,    \* the settings argument the page passes to the batch call
  job,         \* one request handed to a worker, and what it posted back
  page,        \* the audio page: its refs, its React state and what its callers obtained
  compressionHistory, \* UniversalAudioCompressor.compressionHistory
  onProgress,  \* the values the onProgress callback of the compressAudio call under way received
  events,      \* the progress events the batch's progressCallback has received
  created,     \* number of Worker objects the image compressor has constructed
  terminated,  \* number of worker.terminate() calls
  stats        \* what the last getCompressionStats call was given and returned

imgVars == <<worker, inv, listeners, inflight, imgFiles, imgIdx, imgResults, imgPc, imgCur, imgPromise>>
pptVars == <<pptFiles, pptIdx, pptResults, pptPc, pptMedia, pptCompressed, pptOutcome>>
audioVars == <<lamejs, aFiles, aIdx, aResults, aPc, aHung, aPromise, aSettings>>
hostVars == <<events, created, terminated, stats>>
cfgVars == <<options, settings, job>>
pageVars == <<page, compressionHistory, onProgress>>
vars == <<mode, env, imgVars, pptVars, audioVars, hostVars, cfgVars, pageVars>>

\* ---------------------------------------------------------------- data
NoError == ""
TimeoutError == "Compression timeout"
WorkerUnavailable == "Worker not available"
NoBlobError == "No blob received from worker"
ReadError == "Failed to read file"
WorkerBlocked == "Failed to construct 'Worker'"
DecodeError == "The source image could not be decoded"

\* A Blob is described by where its bytes come from: the input file itself
\* ("orig", of file id), the worker's encoding for a request ("enc", of
\* request id), or nothing ("empty", new Blob()).
EmptyBlob == [kind |-> "empty", id |-> 0]
OrigBlob(f) == [kind |-> "orig", id |-> f.id]
EncBlob(k) == [kind |-> "enc", id |-> k]

\* Input files of an image batch.  pt: the worker passes the file through
\* (its name ends in .svg); id names the file's bytes.
PassThroughNames == {"b.svg", "image2.emf"}
ImageFile(n, s, i) == [name |-> n, size |-> s, pt |-> (n \in PassThroughNames), id |-> i]

\* The files a batch is built from: a name and a size; an empty file only
\* as a pass-through one (an empty raster file is one more undecodable file).
ImageInputs == {<<"a.png", 1>>, <<"a.png", MaxSize>>, <<"b.svg", 0>>, <<"b.svg", MaxSize>>}

ImageBatches == UNION {[1..n -> ImageInputs] : n \in 0..MaxFiles}

MkImageFiles(b) == [i \in DOMAIN b |-> ImageFile(b[i][1], b[i][2], i)]

\* Sizes an encoder output or a rebuilt archive may have.
OutSizes == {1, MaxSize}

\* ((saved / original) * 100).toFixed(1): the percentage rounded to one
\* decimal, kept as its number of tenths ("16.7" is 167).
toFixed1(saved, original) ==
  LET a == IF saved < 0 THEN 0 - saved ELSE saved
      t == (a * 2000 + original) \div (2 * original)
  IN IF saved < 0 THEN 0 - t ELSE t

\* The compressionRatio string of a result: a number of tenths printed with
\* `decimals` decimals and a suffix, or the text toFixed gives for a number
\* that is not finite (kind "NaN", "-Infinity").
RatioText(k, t, d, sfx) == [kind |-> k, tenths |-> t, decimals |-> d, suffix |-> sfx]

\* A ratio that is never reported below zero.
compressionRatioClamped(original, size) ==
  IF original = 0 THEN RatioText(IF size = 0 THEN "NaN" ELSE "-Infinity", 0, 1, "")
  ELSE RatioText("number", IF size > original THEN 0 ELSE toFixed1(original - size, original), 1, "")

\* ((file.size - blob.size) / file.size * 100).toFixed(1)
compressionRatio(original, size) ==
  IF original = 0 THEN RatioText(IF size = 0 THEN "NaN" ELSE "-Infinity", 0, 1, "")
  ELSE RatioText("number", toFixed1(original - size, original), 1, "")

\* compressionRatio: '0' of the catch blocks and of the no-media result.
ZeroRatio == RatioText("number", 0, 0, "")

\* CompressionResult of the image compressor (the fields the batch logic and
\* the statistics read, and the reported ratio; width, height,
\* hasTransparency and outputFormat are copied from the worker message and
\* influence nothing here).
Result(n, s, b, o, e, c) ==
  [name |-> n, size |-> s, blob |-> b, originalSize |-> o, error |-> e, compressionRatio |-> c]
NoResult == Result("", 0, EmptyBlob, 0, NoError, ZeroRatio)

\* ------------------------------------------------- the image worker
\* The terminal message the image worker posts for request k.  A message is
\* described by the fields handleMessage reads: a truthy error, a blob, or
\* neither (an error whose text is empty).  src is the request it answers.
Msg(kd, k, b, s, e) == [kind |-> kd, src |-> k, blob |-> b, size |-> s, error |-> e]

ImageWorkerMessages(k, f) ==
  (IF f.pt
     THEN {Msg("result", k, OrigBlob(f), f.size, NoError)}
     ELSE IF f.size > 0
            THEN {Msg("result", k, EncBlob(k), s, NoError) : s \in OutSizes}
            ELSE {})
  \cup {Msg("error", k, EmptyBlob, 0, DecodeError), Msg("noblob", k, EmptyBlob, 0, NoError)}

\* ------------------------------------------------- options and settings
\* An options object is a function from its keys; quality is kept in
\* thousandths, scale as the fraction <<numerator, denominator>>.
imageCompressorConfig ==
  [maxWidth |-> 1600, maxHeight |-> 900, quality |-> 900, format |-> "webp", scale |-> <<1, 1>>,
   mode |-> "aggressive"]

\* defaultConfig of UniversalPPTCompressor.
defaultConfig ==
  [quality |-> 900, maxWidth |-> 1600, maxHeight |-> 900, format |-> "pptx", mode |-> "aggressive",
   scale |-> <<1, 1>>]

\* defaultConfig of UniversalAudioCompressor.
audioDefaultConfig ==
  [quality |-> 800, bitrate |-> 128, sampleRate |-> 44100, channels |-> 2, format |-> "mp3",
   mode |-> "normal", bitDepth |-> 16]

\* A settings argument that was not given: {}.
NoSettings == [k \in {} |-> 0]

\* { ...a, ...b }: the keys of both, b's value where both have one.
spread(a, b) == b @@ a

\* The options the PPTX compressor gives its image compressor, in its
\* constructor and in updateOptions.
imageCompressorOptions(o) ==
  [format |-> "webp", quality |-> o.quality, maxWidth |-> o.maxWidth, maxHeight |-> o.maxHeight,
   scale |-> o.scale, mode |-> o.mode]

\* The three compressors after construction with the options given.
Constructed(given) ==
  [image |-> IF mode = "ppt"
               THEN spread(imageCompressorConfig, imageCompressorOptions(spread(defaultConfig, given)))
               ELSE spread(imageCompressorConfig, given),
   ppt   |-> spread(defaultConfig, given),
   audio |-> spread(audioDefaultConfig, given)]

\* The settings argument of the image compressor's compressBatch: the
\* page's, or in compressPPT { ...this.options, ...settings }.
imgSettings == IF mode = "ppt" THEN spread(options.ppt, settings) ELSE settings

\* A merge in which the caller's settings are spread last.
compressionSettingsCallerLast(f, s) ==
  spread(spread(options.image, [originalSize |-> f.size, originalName |-> f.name]), s)

\* compressionSettings of compressImage.
compressionSettings(f, s) ==
  spread(spread(options.image, s), [originalSize |-> f.size, originalName |-> f.name])

\* compressionSettings of compressAudio.
audioCompressionSettings(f) ==
  spread(spread(options.audio, settings), [originalSize |-> f.size, originalName |-> f.name])

\* ------------------------------------------------- compressImage
\* createCompressionWorker / the lazy creation at the head of compressImage.
createCompressionWorker == IF env = "browser" THEN "live" ELSE "null"

\* The promise of one compressImage call: pending ("none"), resolved with a
\* result or rejected with an error.  from is the request whose worker
\* message settled it (0: settled without a worker message).
Promise(st, res, e, src) == [state |-> st, result |-> res, error |-> e, from |-> src]
Pending == Promise("none", NoResult, NoError, 0)

\* reject(...) and resolve(...) settle a promise once; later calls are ignored.
Reject(p, e, src) == IF p.state = "none" THEN Promise("rejected", NoResult, e, src) ELSE p
Resolve(p, res, src) == IF p.state = "none" THEN Promise("resolved", res, NoError, src) ELSE p

\* The invocation right after the synchronous part of compressImage: with a
\* worker, the 30 s timer is armed and the FileReader started.
\* posts counts the postMessage calls made for it, target is the worker
\* (by order of construction) the request was posted to.
NewInvocation(f, w) ==
  [file |-> f, reader |-> IF w = "live" THEN "reading" ELSE "none", armed |-> (w = "live"),
   posts |-> 0, target |-> 0, settings |-> compressionSettings(f, imgSettings)]

\* The promise right after the synchronous part of compressImage: rejected
\* at once when there is no worker (or its construction threw).
NewPromise(w) ==
  IF w = "live" THEN Pending
  ELSE Promise("rejected", NoResult, IF env = "blocked" THEN WorkerBlocked ELSE WorkerUnavailable, 0)

\* The settle step of handleMessage in the call for file f, on message m.
handleMessage(p, f, m) ==
  IF m.kind = "error" THEN Reject(p, m.error, m.src)
  ELSE IF m.kind # "result" THEN Reject(p, NoBlobError, m.src)
  ELSE Resolve(p, Result(f.name, m.size, m.blob, f.size, NoError, compressionRatio(f.size, m.size)), m.src)

\* ------------------------------------------------- compressBatch (image)
\* A catch block that loses the error text.
ErrorResultNoText(f, e) == Result(f.name, 0, EmptyBlob, f.size, NoError, ZeroRatio)

\* The catch block of compressBatch.
ErrorResult(f, e) == Result(f.name, 0, EmptyBlob, f.size, e, ZeroRatio)

\* A catch block that only logs.
CatchPushDrops(results, f, e) == results

CatchPush(results, f, e) == Append(results, ErrorResult(f, e))

\* A continuation of a settled promise is ready to run: the event loop runs
\* it before it handles any further event.
ImgRunnable ==
  \/ imgPc = "loop"
  \/ imgPc = "await" /\ imgPromise.state # "none"

PptRunnable ==
  \/ pptPc \in {"loop", "resume"}
  \/ pptPc = "images" /\ imgPc = "done"

AudioRunnable == aPc \in {"loop", "resume"}

Runnable == ImgRunnable \/ PptRunnable \/ AudioRunnable

\* A progress event that reports the items done after this one.
ProgressEventAfter(i, n) == [progress |-> <<i + 1, n>>, status |-> "Processing..."]

\* progressCallback({progress: i / totalFiles, ..., status: 'Processing...'})
\* and the final progressCallback({progress: 1, ..., status: 'Completed'}).
\* A progress value is kept as the fraction <<numerator, denominator>>.
ProgressEvent(i, n) == [progress |-> <<i, n>>, status |-> "Processing..."]
FinalEvent == [progress |-> <<1, 1>>, status |-> "Completed"]

\* if (progressCallback): the image batch of this session was given one;
\* compressPPT calls the image compressor's compressBatch without one.
imgCallback == mode = "image"

\* A compressImage that constructs a worker on every call.
needsWorkerAlways == TRUE

\* if (!this.worker) at the head of compressImage.
needsWorker == worker = "null"

\* Loop head with i < files.length: the call of compressImage(file, settings).
compressBatchIter ==
  /\ imgPc = "loop"
  /\ imgIdx < Len(imgFiles)
  /\ LET f == imgFiles[imgIdx + 1]
         w == IF needsWorker THEN createCompressionWorker ELSE worker
     IN /\ worker' = w
        /\ created' = IF needsWorker /\ createCompressionWorker = "live" THEN created + 1 ELSE created
        /\ events' = IF imgCallback THEN Append(events, ProgressEvent(imgIdx, Len(imgFiles))) ELSE events
        /\ inv' = Append(inv, NewInvocation(f, w))
        /\ imgPromise' = NewPromise(w)
        /\ imgCur' = Len(inv) + 1
        /\ imgPc' = "await"
  /\ UNCHANGED <<audioVars, pptVars, mode, env, listeners, inflight, imgFiles, imgIdx, imgResults>>
  /\ UNCHANGED <<terminated, stats>>
  /\ UNCHANGED <<options, settings, job, page, compressionHistory, onProgress>>

\* A loop that does not await the call before it goes on.
compressBatchResumeNoAwait ==
  /\ imgPc = "await"
  /\ imgResults' = IF imgPromise.state = "resolved"
                     THEN Append(imgResults, imgPromise.result)
                     ELSE CatchPush(imgResults, imgFiles[imgIdx + 1], imgPromise.error)
  /\ imgIdx' = imgIdx + 1
  /\ imgPc' = "loop"
  /\ UNCHANGED <<audioVars, pptVars, mode, env, worker, inv, listeners, inflight, imgFiles, imgCur, imgPromise>>
  /\ UNCHANGED <<events, created, terminated, stats>>
  /\ UNCHANGED <<options, settings, job, page, compressionHistory, onProgress>>

\* A loop that submits a failed item again.
compressBatchResumeRetry ==
  /\ imgPc = "await"
  /\ imgPromise.state # "none"
  /\ imgResults' = IF imgPromise.state = "resolved" THEN Append(imgResults, imgPromise.result) ELSE imgResults
  /\ imgIdx' = IF imgPromise.state = "resolved" THEN imgIdx + 1 ELSE imgIdx
  /\ imgPc' = "loop"
  /\ UNCHANGED <<audioVars, pptVars, mode, env, worker, inv, listeners, inflight, imgFiles, imgCur, imgPromise>>
  /\ UNCHANGED <<events, created, terminated, stats>>
  /\ UNCHANGED <<options, settings, job, page, compressionHistory, onProgress>>

\* The await returns or throws: results.push(result), or the catch block.
compressBatchResume ==
  /\ imgPc = "await"
  /\ imgPromise.state # "none"
  /\ imgResults' = IF imgPromise.state = "resolved"
                     THEN Append(imgResults, imgPromise.result)
                     ELSE CatchPush(imgResults, imgFiles[imgIdx + 1], imgPromise.error)
  /\ imgIdx' = imgIdx + 1
  /\ imgPc' = "loop"
  /\ UNCHANGED <<audioVars, pptVars, mode, env, worker, inv, listeners, inflight, imgFiles, imgCur, imgPromise>>
  /\ UNCHANGED <<events, created, terminated, stats>>
  /\ UNCHANGED <<options, settings, job, page, compressionHistory, onProgress>>

\* Loop exit: return results.
compressBatchReturn ==
  /\ imgPc = "loop"
  /\ imgIdx >= Len(imgFiles)
  /\ imgPc' = "done"
  /\ events' = IF imgCallback THEN Append(events, FinalEvent) ELSE events
  /\ UNCHANGED <<audioVars, pptVars, mode, env, worker, inv, listeners, inflight, imgFiles, imgIdx, imgResults,
                 imgCur, imgPromise>>
  /\ UNCHANGED <<created, terminated, stats>>
  /\ UNCHANGED <<options, settings, job, page, compressionHistory, onProgress>>

\* ------------------------------------------------- events
\* A resolve or reject of invocation k reaches the awaited promise only when
\* k is the call being awaited: the promise of an earlier call is settled.
SettleOf(k, p) == IF k = imgCur /\ imgPc = "await" THEN p ELSE imgPromise

\* reader.onload of invocation k: post the request, then attach the listener.
\* It runs whether or not the invocation was already rejected by its timer.
readerOnload(k) ==
  /\ ~Runnable
  /\ k \in DOMAIN inv
  /\ inv[k].reader = "reading"
  /\ inv' = IF worker = "live"
              THEN [inv EXCEPT ![k].reader = "done", ![k].posts = @ + 1, ![k].target = created]
              ELSE [inv EXCEPT ![k].reader = "done"]
  /\ inflight' = IF worker = "live" THEN inflight \cup {k} ELSE inflight
  /\ listeners' = IF worker = "live" THEN listeners \cup {k} ELSE listeners
  /\ UNCHANGED <<audioVars, pptVars, mode, env, worker, imgFiles, imgIdx, imgResults, imgPc, imgCur, imgPromise>>
  /\ UNCHANGED <<events, created, terminated, stats>>
  /\ UNCHANGED <<options, settings, job, page, compressionHistory, onProgress>>

\* reader.onerror of invocation k: clearTimeout and reject.
readerOnerror(k) ==
  /\ ~Runnable
  /\ k \in DOMAIN inv
  /\ inv[k].reader = "reading"
  /\ inv' = [inv EXCEPT ![k].reader = "done", ![k].armed = FALSE]
  /\ imgPromise' = SettleOf(k, Reject(imgPromise, ReadError, 0))
  /\ UNCHANGED <<audioVars, pptVars, mode, env, worker, listeners, inflight, imgFiles, imgIdx, imgResults, imgPc, imgCur>>
  /\ UNCHANGED <<events, created, terminated, stats>>
  /\ UNCHANGED <<options, settings, job, page, compressionHistory, onProgress>>

\* A timer callback that does not reject.
timeoutFiresNoReject(k) ==
  /\ ~Runnable
  /\ k \in DOMAIN inv
  /\ inv[k].armed
  /\ inv' = [inv EXCEPT ![k].armed = FALSE]
  /\ UNCHANGED <<audioVars, pptVars, mode, env, worker, listeners, inflight, imgFiles, imgIdx, imgResults,
                 imgPc, imgCur, imgPromise>>
  /\ UNCHANGED <<events, created, terminated, stats>>
  /\ UNCHANGED <<options, settings, job, page, compressionHistory, onProgress>>

\* The 30 s timer of invocation k fires: reject, nothing else.
timeoutFires(k) ==
  /\ ~Runnable
  /\ k \in DOMAIN inv
  /\ inv[k].armed
  /\ inv' = [inv EXCEPT ![k].armed = FALSE]
  /\ imgPromise' = SettleOf(k, Reject(imgPromise, TimeoutError, 0))
  /\ UNCHANGED <<audioVars, pptVars, mode, env, worker, listeners, inflight, imgFiles, imgIdx, imgResults, imgPc, imgCur>>
  /\ UNCHANGED <<events, created, terminated, stats>>
  /\ UNCHANGED <<options, settings, job, page, compressionHistory, onProgress>>

\* The message event m is dispatched to every listener attached at that
\* moment: each clears its own timer, removes itself and settles its call.
Dispatch(m) ==
  /\ inv' = [j \in DOMAIN inv |-> IF j \in listeners THEN [inv[j] EXCEPT !.armed = FALSE] ELSE inv[j]]
  /\ imgPromise' = IF imgCur \in listeners
                     THEN SettleOf(imgCur, handleMessage(imgPromise, inv[imgCur].file, m))
                     ELSE imgPromise
  /\ listeners' = {}

\* The worker posts its terminal message for request k.
workerResponds(k) ==
  /\ ~Runnable
  /\ k \in inflight
  /\ \E m \in ImageWorkerMessages(k, inv[k].file) : Dispatch(m)
  /\ inflight' = inflight \ {k}
  /\ UNCHANGED <<audioVars, pptVars, mode, env, worker, imgFiles, imgIdx, imgResults, imgPc, imgCur>>
  /\ UNCHANGED <<events, created, terminated, stats>>
  /\ UNCHANGED <<options, settings, job, page, compressionHistory, onProgress>>

\* ------------------------------------------------- destroy
\* A destroy that terminates without looking at the handle.
destroyUnguarded ==
  /\ worker' = "null"
  /\ terminated' = terminated + 1
  /\ listeners' = {}
  /\ inflight' = {}
  /\ UNCHANGED <<audioVars, pptVars, mode, env, inv, imgFiles, imgIdx, imgResults, imgPc, imgCur, imgPromise>>
  /\ UNCHANGED <<events, created, stats>>
  /\ UNCHANGED <<options, settings, job, page, compressionHistory, onProgress>>

\* UniversalImageCompressor.destroy(), called by the page at any moment.  A
\* terminated worker answers nothing and the listeners attached to it are
\* never called again.
destroy ==
  /\ IF worker = "live"
       THEN /\ worker' = "null"
            /\ terminated' = terminated + 1
            /\ listeners' = {}
            /\ inflight' = {}
       ELSE UNCHANGED <<worker, terminated, listeners, inflight>>
  /\ UNCHANGED <<audioVars, pptVars, mode, env, inv, imgFiles, imgIdx, imgResults, imgPc, imgCur, imgPromise>>
  /\ UNCHANGED <<events, created, stats>>
  /\ UNCHANGED <<options, settings, job, page, compressionHistory, onProgress>>

\* ------------------------------------------------- PPTX archives
\* A path is the list of its '/'-separated segments ('ppt/media/' ends in an
\* empty segment).  path.startsWith('ppt/media/'):
startsWithMedia(p) == Len(p) >= 3 /\ p[1] = "ppt" /\ p[2] = "media"

ContentTypesPath == <<"[Content_Types].xml">>
MediaDirPath == <<"ppt", "media", "">>
Image1Path == <<"ppt", "media", "image1.png">>
Image2Path == <<"ppt", "media", "image2.emf">>

\* The bytes of entry j of input file fi.
EntryBlob(fi, j) == [kind |-> "orig", id |-> fi * 10 + j]
Entry(p, d, b, s) == [path |-> p, dir |-> d, data |-> b, size |-> s]

\* zip.files of the archives used as input, in entry order: no media member,
\* one (a raster image), two (a raster image and a pass-through .emf).
ArchiveKinds == {"a0", "a1", "a2"}
Archive(kind, fi) ==
  <<Entry(ContentTypesPath, FALSE, EntryBlob(fi, 1), 1),
    Entry(MediaDirPath, TRUE, EmptyBlob, 0)>>
  \o (IF kind \in {"a1", "a2"} THEN <<Entry(Image1Path, FALSE, EntryBlob(fi, 3), MaxSize)>> ELSE <<>>)
  \o (IF kind = "a2" THEN <<Entry(Image2Path, FALSE, EntryBlob(fi, 4), 1)>> ELSE <<>>)

MediaCount(kind) == IF kind = "a1" THEN 1 ELSE IF kind = "a2" THEN 2 ELSE 0

\* Inputs of a PPTX batch: a Blob that is no File, a File that is no zip
\* archive, or one of the archives; each kind with its size in bytes.
PptInputs == {<<"blob", 1>>, <<"corrupt", MaxSize>>, <<"a0", 1>>, <<"a1", MaxSize>>, <<"a2", 1>>}

RECURSIVE TotalMedia(_)
TotalMedia(b) == IF b = <<>> THEN 0 ELSE MediaCount(b[1][1]) + TotalMedia(Tail(b))

PptBatches ==
  {b \in UNION {[1..n -> PptInputs] : n \in 0..MaxFiles} : TotalMedia(b) <= MaxMembers}

PptName == <<"deck", ".pptx">>

MkPptFile(kind, sz, i) ==
  [isFile |-> kind # "blob",
   valid  |-> kind \in ArchiveKinds,
   name   |-> IF kind = "blob" THEN <<>> ELSE PptName,
   size   |-> sz,
   zip    |-> IF kind \in ArchiveKinds THEN Archive(kind, i) ELSE <<>>,
   id     |-> i]

MkPptFiles(b) == [i \in DOMAIN b |-> MkPptFile(b[i][1], b[i][2], i)]

PptResult(n, s, b, z, o, e, c) ==
  [name |-> n, size |-> s, blob |-> b, zip |-> z, originalSize |-> o, error |-> e, compressionRatio |-> c]
NoPptResult == PptResult(<<>>, 0, EmptyBlob, <<>>, 0, NoError, ZeroRatio)

OnlyFileError == "Only File type is supported for PPTX compression"
NoMediaError == "No media files found in PPTX"
ZipLoadError == "Can't find end of central directory : is this a zip file ?"
ZipGenerateError == "Failed to generate the archive"

Settled(st, res, e) == [state |-> st, result |-> res, error |-> e]
NoOutcome == Settled("none", NoPptResult, NoError)

\* ------------------------------------------------- compressPPT
\* extractMediaFiles: the non-directory entries under ppt/media/, each as a
\* File named by the last path segment.
extractMediaFiles(file) ==
  LET sel == SelectSeq(file.zip, LAMBDA e : startsWithMedia(e.path) /\ ~e.dir)
  IN [j \in 1..Len(sel) |->
        [path |-> sel[j].path,
         file |-> ImageFile(sel[j].path[Len(sel[j].path)], sel[j].size, sel[j].data.id)]]

\* if (media.compressedBlob): every Blob object is truthy, an empty one too.
BlobTruthy(b) == b.kind \in {"orig", "enc", "empty"}

\* A zip.file call keyed by the member's file name instead of its path.
zipFileByName(zip, p, b) == Append(zip, Entry(<<p[Len(p)]>>, FALSE, b, 0))

\* zip.file(path, blob): replace the data of the entry at path, or add one.
zipFile(zip, p, b) ==
  IF \E j \in 1..Len(zip) : zip[j].path = p
    THEN [j \in 1..Len(zip) |-> IF zip[j].path = p THEN [zip[j] EXCEPT !.data = b, !.dir = FALSE] ELSE zip[j]]
    ELSE Append(zip, Entry(p, FALSE, b, 0))

\* The loop of repackPPTX over compressedMedia, on the reloaded archive.
RECURSIVE repackEntries(_, _)
repackEntries(zip, media) ==
  IF media = <<>> THEN zip
  ELSE repackEntries(IF BlobTruthy(media[1].compressedBlob)
                       THEN zipFile(zip, media[1].path, media[1].compressedBlob)
                       ELSE zip,
                     Tail(media))

\* compressedMedia = mediaFiles.map((media, i) => ...).  failed is not a
\* field of the code's objects: it records whether compressedResults[i]
\* carried an error, for the properties below.
compressedMedia(mediaFiles, compressedResults) ==
  [j \in 1..Len(mediaFiles) |->
     [path |-> mediaFiles[j].path,
      compressedBlob |-> compressedResults[j].blob,
      failed |-> compressedResults[j].error # NoError]]

\* file.name.replace('.pptx', '_compressed.pptx'): the first occurrence of
\* the lower-case text only.  A name is the sequence of its pieces.
RECURSIVE replacePptx(_)
replacePptx(n) ==
  IF n = <<>> THEN <<>>
  ELSE IF n[1] = ".pptx" THEN <<"_compressed", ".pptx">> \o Tail(n)
  ELSE <<n[1]>> \o replacePptx(Tail(n))

\* A no-media result that hands back an empty archive instead of the file.
NoMediaResultEmpty(file) ==
  PptResult(file.name, 0, EmptyBlob, <<>>, file.size, NoMediaError, ZeroRatio)

NoMediaResult(file) ==
  PptResult(file.name, file.size, [kind |-> "orig", id |-> file.id], file.zip, file.size, NoMediaError,
            ZeroRatio)

\* A compressPPT that hands back the input when the rebuilt archive is larger.
RepackedResultIfSmaller(file, zip, sz) ==
  IF sz > file.size
    THEN PptResult(file.name, file.size, [kind |-> "orig", id |-> file.id], file.zip, file.size, NoError,
                   ZeroRatio)
    ELSE PptResult(replacePptx(file.name), sz, [kind |-> "zip", id |-> file.id, size |-> sz], zip,
                   file.size, NoError, [compressionRatio(file.size, sz) EXCEPT !.suffix = "%"])

\* The result of compressPPT: the blob repackPPTX generated (of sz bytes),
\* size: compressedPPTX.size, compressionRatio: (...).toFixed(1) + '%'.
RepackedResult(file, zip, sz) ==
  PptResult(replacePptx(file.name), sz, [kind |-> "zip", id |-> file.id, size |-> sz], zip, file.size,
            NoError, [compressionRatio(file.size, sz) EXCEPT !.suffix = "%"])

\* The catch block of UniversalPPTCompressor.compressBatch.
PptErrorResult(f, i, e) ==
  PptResult(IF f.isFile THEN f.name ELSE <<"pptx_", ToString(i + 1)>>, 0, EmptyBlob, <<>>, f.size, e,
            ZeroRatio)

PptCatchPush(results, f, i, e) == Append(results, PptErrorResult(f, i, e))

\* Loop head with i < files.length: the call of compressPPT(file, settings),
\* up to its first await (JSZip.loadAsync in extractMediaFiles).
pptBatchIter ==
  /\ pptPc = "loop"
  /\ pptIdx < Len(pptFiles)
  /\ LET f == pptFiles[pptIdx + 1]
     IN IF ~f.isFile
          THEN /\ pptOutcome' = Settled("rejected", NoPptResult, OnlyFileError)
               /\ pptPc' = "resume"
          ELSE /\ pptOutcome' = NoOutcome
               /\ pptPc' = "extract"
  /\ pptMedia' = <<>>
  /\ pptCompressed' = <<>>
  /\ events' = Append(events, ProgressEvent(pptIdx, Len(pptFiles)))
  /\ UNCHANGED <<audioVars, mode, env, imgVars, pptFiles, pptIdx, pptResults>>
  /\ UNCHANGED <<created, terminated, stats>>
  /\ UNCHANGED <<options, settings, job, page, compressionHistory, onProgress>>

\* extractMediaFiles settles: JSZip throws, or no media member is found, or
\* the image compressor's compressBatch is called on the members.
pptExtracted ==
  /\ ~Runnable
  /\ pptPc = "extract"
  /\ LET f == pptFiles[pptIdx + 1]
         m == extractMediaFiles(f)
     IN IF ~f.valid
          THEN /\ pptOutcome' = Settled("rejected", NoPptResult, ZipLoadError)
               /\ pptPc' = "resume"
               /\ UNCHANGED <<pptMedia, imgFiles, imgIdx, imgResults, imgPc>>
          ELSE IF Len(m) = 0
          THEN /\ pptOutcome' = Settled("resolved", NoMediaResult(f), NoError)
               /\ pptPc' = "resume"
               /\ UNCHANGED <<pptMedia, imgFiles, imgIdx, imgResults, imgPc>>
          ELSE /\ pptMedia' = m
               /\ imgFiles' = [j \in 1..Len(m) |-> m[j].file]
               /\ imgIdx' = 0
               /\ imgResults' = <<>>
               /\ imgPc' = "loop"
               /\ pptPc' = "images"
               /\ UNCHANGED pptOutcome
  /\ UNCHANGED <<audioVars, mode, env, worker, inv, listeners, inflight, imgCur, imgPromise,
                 pptFiles, pptIdx, pptResults, pptCompressed>>
  /\ UNCHANGED <<events, created, terminated, stats>>
  /\ UNCHANGED <<options, settings, job, page, compressionHistory, onProgress>>

\* The image batch returned: build compressedMedia and call repackPPTX.
pptImagesDone ==
  /\ pptPc = "images"
  /\ imgPc = "done"
  /\ pptCompressed' = compressedMedia(pptMedia, imgResults)
  /\ imgResults' = <<>>
  /\ imgPc' = "idle"
  /\ pptPc' = "repack"
  /\ UNCHANGED <<audioVars, mode, env, worker, inv, listeners, inflight, imgFiles, imgIdx, imgCur, imgPromise,
                 pptFiles, pptIdx, pptResults, pptMedia, pptOutcome>>
  /\ UNCHANGED <<events, created, terminated, stats>>
  /\ UNCHANGED <<options, settings, job, page, compressionHistory, onProgress>>

\* repackPPTX settles: the rebuilt archive, or JSZip throws.
pptRepacked ==
  /\ ~Runnable
  /\ pptPc = "repack"
  /\ LET f == pptFiles[pptIdx + 1]
         z == repackEntries(f.zip, pptCompressed)
     IN \/ \E sz \in OutSizes : pptOutcome' = Settled("resolved", RepackedResult(f, z, sz), NoError)
        \/ pptOutcome' = Settled("rejected", NoPptResult, ZipGenerateError)
  /\ pptPc' = "resume"
  /\ UNCHANGED <<audioVars, mode, env, imgVars, pptFiles, pptIdx, pptResults, pptMedia, pptCompressed>>
  /\ UNCHANGED <<events, created, terminated, stats>>
  /\ UNCHANGED <<options, settings, job, page, compressionHistory, onProgress>>

\* The await of compressPPT returns or throws: push, or the catch block.
pptBatchResume ==
  /\ pptPc = "resume"
  /\ pptResults' = IF pptOutcome.state = "resolved"
                     THEN Append(pptResults, pptOutcome.result)
                     ELSE PptCatchPush(pptResults, pptFiles[pptIdx + 1], pptIdx, pptOutcome.error)
  /\ pptIdx' = pptIdx + 1
  /\ pptPc' = "loop"
  /\ UNCHANGED <<audioVars, mode, env, imgVars, pptFiles, pptMedia, pptCompressed, pptOutcome>>
  /\ UNCHANGED <<events, created, terminated, stats>>
  /\ UNCHANGED <<options, settings, job, page, compressionHistory, onProgress>>

\* UniversalPPTCompressor.destroy(): this.imageCompressor.destroy().
pptDestroy == destroy

\* Loop exit: return results.
pptBatchReturn ==
  /\ pptPc = "loop"
  /\ pptIdx >= Len(pptFiles)
  /\ pptPc' = "done"
  /\ events' = Append(events, FinalEvent)
  /\ UNCHANGED <<audioVars, mode, env, imgVars, pptFiles, pptIdx, pptResults, pptMedia, pptCompressed, pptOutcome>>
  /\ UNCHANGED <<created, terminated, stats>>
  /\ UNCHANGED <<options, settings, job, page, compressionHistory, onProgress>>

\* ------------------------------------------------- audio compressor
AudioFile(n, s, i) == [name |-> n, size |-> s, id |-> i]
AudioInputs == {<<"a.wav", 1>>, <<"a.wav", MaxSize>>}
AudioBatches == UNION {[1..n -> AudioInputs] : n \in 0..MaxFiles}
MkAudioFiles(b) == [i \in DOMAIN b |-> AudioFile(b[i][1], b[i][2], i)]

LamejsError == "Audio compression library failed to load. Please try refreshing the page."
AudioReadError == "The requested file could not be read"
AudioDecodeError == "Unable to decode audio data"
AudioRenderError == "Failed to render audio"

\* The operations compressAudio awaits, in order: initLamejs (only while
\* this.lamejs is null), file.arrayBuffer, decodeAudioData, startRendering.
AudioStages == {"init", "read", "decode", "render"}
NextStage(st) == IF st = "init" THEN "read" ELSE IF st = "read" THEN "decode" ELSE "render"
StageError(st) ==
  IF st = "init" THEN LamejsError ELSE IF st = "read" THEN AudioReadError
  ELSE IF st = "decode" THEN AudioDecodeError ELSE AudioRenderError

\* The catch block of UniversalAudioCompressor.compressBatch.
AudioErrorResult(f, e) == Result(f.name, 0, EmptyBlob, f.size, e, ZeroRatio)

AudioCatchPush(results, f, e) == Append(results, AudioErrorResult(f, e))

\* Loop head with i < files.length: the call of compressAudio(file, settings),
\* up to its first await.
audioBatchIter ==
  /\ aPc = "loop"
  /\ aIdx < Len(aFiles)
  /\ aPc' = IF lamejs = "null" THEN "init" ELSE "read"
  /\ aPromise' = Pending
  /\ aHung' = FALSE
  /\ aSettings' = IF lamejs = "null" THEN NoSettings ELSE audioCompressionSettings(aFiles[aIdx + 1])
  /\ events' = Append(events, ProgressEvent(aIdx, Len(aFiles)))
  /\ UNCHANGED <<mode, env, imgVars, pptVars, lamejs, aFiles, aIdx, aResults>>
  /\ UNCHANGED <<created, terminated, stats>>
  /\ UNCHANGED <<options, settings, job, page, compressionHistory, onProgress>>

\* sampleBlockSize of the encoding loop.
sampleBlockSize == 1152

\* renderedBuffer.length: no sample, less than a block, whole blocks, and
\* whole blocks and one sample more.
MaxBlocks == 2
NumSamples == {0, 1} \cup {k * sampleBlockSize : k \in 1..MaxBlocks}
                     \cup {k * sampleBlockSize + 1 : k \in 1..MaxBlocks}

\* The number of passes of for (i = 0; i < numSamples; i += sampleBlockSize).
Blocks(numSamples) == (numSamples + sampleBlockSize - 1) \div sampleBlockSize

\* A progress value of compressAudio, as a fraction <<numerator, denominator>>.
Pct(x) == <<x, 100>>

\* The loop reporting the progress at the end of each block.
encodeProgressAtBlockEnd(numSamples) ==
  [k \in 1..Blocks(numSamples) |->
     <<60 * numSamples + 35 * k * sampleBlockSize, 100 * numSamples>>]

\* The values the encoding loop reports: 0.6 + (i / numSamples) * 0.35 for
\* i = 0, sampleBlockSize, ...
encodeProgress(numSamples) ==
  [k \in 1..Blocks(numSamples) |->
     <<60 * numSamples + 35 * (k - 1) * sampleBlockSize, 100 * numSamples>>]

\* onProgress?.(x) for each x of ps: the batch calls compressAudio without a
\* callback, a page that calls compressAudio itself passes one.
onProgressCalls(ps) == IF mode = "compressAudio" THEN onProgress \o ps ELSE onProgress

\* A history that keeps the latest entry only.
compressionHistoryLatest(history, f, sz, cs) ==
  <<[originalFile |-> f.name, originalSize |-> f.size, compressedSize |-> sz, settings |-> cs]>>

\* this.compressionHistory.push({...}); the timestamp is left out.
compressionHistoryPush(history, f, sz, cs) ==
  Append(history, [originalFile |-> f.name, originalSize |-> f.size, compressedSize |-> sz,
                   settings |-> cs])

AudioEncodeError == "MPEGMode is not defined"

\* The awaited operation settles.  It fulfils: compressAudio goes on to its
\* next await, and after startRendering encodes (synchronously), appends to
\* the history and resolves; or the encoder throws.
\* It rejects: initLamejs throws out of compressAudio, the others are caught
\* by the executor's try/catch and reject the promise.
audioStageSettles ==
  /\ ~Runnable
  /\ aPc \in AudioStages
  /\ ~aHung
  /\ LET f == aFiles[aIdx + 1]
     IN \/ /\ aPc # "render"
           /\ aPc' = NextStage(aPc)
           /\ lamejs' = IF aPc = "init" THEN "loaded" ELSE lamejs
           /\ aSettings' = IF aPc = "init" THEN audioCompressionSettings(f) ELSE aSettings
           /\ onProgress' = onProgressCalls(IF aPc = "init" THEN <<Pct(0)>>
                                            ELSE IF aPc = "read" THEN <<Pct(5), Pct(10)>>
                                            ELSE <<Pct(20), Pct(30), Pct(35)>>)
           /\ UNCHANGED <<aPromise, compressionHistory>>
        \/ /\ aPc = "render"
           /\ \E s \in OutSizes :
                /\ aPromise' = Resolve(aPromise, Result(f.name, s, EncBlob(f.id), f.size, NoError,
                                                         compressionRatio(f.size, s)), 0)
                /\ compressionHistory' = compressionHistoryPush(compressionHistory, f, s, aSettings)
           /\ \E n \in NumSamples :
                onProgress' = onProgressCalls(<<Pct(50), Pct(55)>> \o encodeProgress(n)
                                              \o <<Pct(95), Pct(100)>>)
           /\ aPc' = "resume"
           /\ UNCHANGED <<lamejs, aSettings>>
        \/ /\ aPc = "render"
           /\ aPromise' = Reject(aPromise, AudioEncodeError, 0)
           /\ onProgress' = onProgressCalls(<<Pct(50)>>)
           /\ aPc' = "resume"
           /\ UNCHANGED <<lamejs, aSettings, compressionHistory>>
        \/ /\ aPromise' = Reject(aPromise, StageError(aPc), 0)
           /\ aPc' = "resume"
           /\ UNCHANGED <<lamejs, aSettings, compressionHistory, onProgress>>
  /\ UNCHANGED <<mode, env, imgVars, pptVars, aFiles, aIdx, aResults, aHung>>
  /\ UNCHANGED <<events, created, terminated, stats>>
  /\ UNCHANGED <<options, settings, job, page>>

\* The decoding or rendering of this file is one that never completes.
audioStageHangs ==
  /\ ~Runnable
  /\ aPc \in {"decode", "render"}
  /\ ~aHung
  /\ aHung' = TRUE
  /\ UNCHANGED <<mode, env, imgVars, pptVars, lamejs, aFiles, aIdx, aResults, aPc, aPromise, aSettings>>
  /\ UNCHANGED <<events, created, terminated, stats>>
  /\ UNCHANGED <<options, settings, job, page, compressionHistory, onProgress>>

\* The await of compressAudio returns or throws: push, or the catch block.
audioBatchResume ==
  /\ aPc = "resume"
  /\ aResults' = IF aPromise.state = "resolved"
                   THEN Append(aResults, aPromise.result)
                   ELSE AudioCatchPush(aResults, aFiles[aIdx + 1], aPromise.error)
  /\ aIdx' = aIdx + 1
  /\ aPc' = "loop"
  /\ UNCHANGED <<mode, env, imgVars, pptVars, lamejs, aFiles, aHung, aPromise, aSettings>>
  /\ UNCHANGED <<events, created, terminated, stats>>
  /\ UNCHANGED <<options, settings, job, page, compressionHistory, onProgress>>

\* Loop exit: return results.
audioBatchReturn ==
  /\ aPc = "loop"
  /\ aIdx >= Len(aFiles)
  /\ aPc' = "done"
  /\ events' = Append(events, FinalEvent)
  /\ UNCHANGED <<mode, env, imgVars, pptVars, lamejs, aFiles, aIdx, aResults, aHung, aPromise, aSettings>>
  /\ UNCHANGED <<created, terminated, stats>>
  /\ UNCHANGED <<options, settings, job, page, compressionHistory, onProgress>>

AudioNext ==
  \/ audioBatchIter
  \/ audioStageSettles
  \/ audioStageHangs
  \/ audioBatchResume
  \/ audioBatchReturn

\* A page calls compressAudio(file, settings, onProgress) itself, for one
\* file after the other: the call up to its first await.
compressAudioCall ==
  /\ mode = "compressAudio"
  /\ aPc = "loop"
  /\ aIdx < Len(aFiles)
  /\ aPc' = IF lamejs = "null" THEN "init" ELSE "read"
  /\ aPromise' = Pending
  /\ aHung' = FALSE
  /\ aSettings' = IF lamejs = "null" THEN NoSettings ELSE audioCompressionSettings(aFiles[aIdx + 1])
  /\ onProgress' = IF lamejs = "null" THEN <<>> ELSE <<Pct(0)>>
  /\ UNCHANGED <<mode, env, imgVars, pptVars, lamejs, aFiles, aIdx, aResults>>
  /\ UNCHANGED <<events, created, terminated, stats>>
  /\ UNCHANGED <<options, settings, job, page, compressionHistory>>

\* The page's await of compressAudio returns the result, or throws.
compressAudioResume ==
  /\ mode = "compressAudio"
  /\ aPc = "resume"
  /\ aResults' = IF aPromise.state = "resolved" THEN Append(aResults, aPromise.result) ELSE aResults
  /\ aIdx' = aIdx + 1
  /\ aPc' = "loop"
  /\ UNCHANGED <<mode, env, imgVars, pptVars, lamejs, aFiles, aHung, aPromise, aSettings>>
  /\ UNCHANGED <<events, created, terminated, stats>>
  /\ UNCHANGED <<options, settings, job, page, compressionHistory, onProgress>>

\* ------------------------------------------------- getCompressionStats
\* A filter that keeps every result.
successResultsAll(results) == results

\* results.filter(r => !r.error)
successResults(results) == SelectSeq(results, LAMBDA r : r.error = NoError)

\* results.reduce((sum, r) => sum + r.originalSize, 0)
RECURSIVE reduceOriginalSize(_)
reduceOriginalSize(results) ==
  IF results = <<>> THEN 0 ELSE results[1].originalSize + reduceOriginalSize(Tail(results))

\* successResults.reduce((sum, r) => sum + r.size, 0)
RECURSIVE reduceSize(_)
reduceSize(results) ==
  IF results = <<>> THEN 0 ELSE results[1].size + reduceSize(Tail(results))

\* Statistics whose totalSaved counts the successful results only.
getCompressionStatsSavedOfSuccess(results) ==
  [totalFiles |-> Len(results),
   successCount |-> Len(successResults(results)),
   failedCount |-> Len(results) - Len(successResults(results)),
   totalOriginalSize |-> reduceOriginalSize(results),
   totalCompressedSize |-> reduceSize(successResults(results)),
   totalSaved |-> reduceOriginalSize(successResults(results)) - reduceSize(successResults(results)),
   averageCompressionRatio |-> [type |-> "number", tenths |-> 0]]

\* getCompressionStats of UniversalImageCompressor and UniversalPPTCompressor
\* (the same code).  averageCompressionRatio is the string of toFixed(1), or
\* the number 0.
getCompressionStats(results) ==
  LET totalOriginalSize == reduceOriginalSize(results)
      totalCompressedSize == reduceSize(successResults(results))
      totalSaved == totalOriginalSize - totalCompressedSize
  IN [totalFiles |-> Len(results),
      successCount |-> Len(successResults(results)),
      failedCount |-> Len(results) - Len(successResults(results)),
      totalOriginalSize |-> totalOriginalSize,
      totalCompressedSize |-> totalCompressedSize,
      totalSaved |-> totalSaved,
      averageCompressionRatio |->
        IF totalOriginalSize > 0
          THEN [type |-> "string", tenths |-> toFixed1(totalSaved, totalOriginalSize)]
          ELSE [type |-> "number", tenths |-> 0]]

\* getCompressionStats of UniversalAudioCompressor: the string '0' where the
\* other two return the number 0.
audioGetCompressionStats(results) ==
  [getCompressionStats(results) EXCEPT
     !.averageCompressionRatio = IF @.type = "number" THEN [type |-> "string", tenths |-> 0] ELSE @]

\* The record of a getCompressionStats call: the array it was given and the
\* object it returned.
StatsCall(r, v) == [called |-> TRUE, given |-> r, value |-> v]
NoStats == [called |-> FALSE, given |-> <<>>, value |-> getCompressionStats(<<>>)]

\* A call that answers from what it returned before.
getStatsCallCached(r) ==
  /\ stats' = IF stats.called THEN [stats EXCEPT !.given = r] ELSE [stats EXCEPT !.called = TRUE, !.given = r]
  /\ UNCHANGED <<mode, env, imgVars, pptVars, audioVars, events, created, terminated>>
  /\ UNCHANGED <<options, settings, job, page, compressionHistory, onProgress>>

\* A caller invokes compressor.getCompressionStats(r).
getStatsCall(r) ==
  /\ stats' = StatsCall(r, getCompressionStats(r))
  /\ UNCHANGED <<mode, env, imgVars, pptVars, audioVars, events, created, terminated>>
  /\ UNCHANGED <<options, settings, job, page, compressionHistory, onProgress>>

\* A caller invokes audioCompressor.getCompressionStats(r).
audioGetStatsCall(r) ==
  /\ stats' = StatsCall(r, audioGetCompressionStats(r))
  /\ UNCHANGED <<mode, env, imgVars, pptVars, audioVars, events, created, terminated>>
  /\ UNCHANGED <<options, settings, job, page, compressionHistory, onProgress>>

\* Result sequences a caller may hold: a result is given by its
\* originalSize, its size and its error.
StatsResult(o, sz, e) ==
  Result("r", sz, IF sz = 0 THEN EmptyBlob ELSE EncBlob(1), o, e,
         IF e = NoError THEN compressionRatio(o, sz) ELSE ZeroRatio)
StatsResults ==
  {StatsResult(100, 50, NoError), StatsResult(200, 0, TimeoutError), StatsResult(0, 0, NoError),
   StatsResult(100, 200, NoError), StatsResult(200, 200, NoMediaError), StatsResult(0, 0, ReadError),
   StatsResult(200, 100, NoError)}
StatsInputs == UNION {[1..n -> StatsResults] : n \in 0..MaxFiles}

\* ------------------------------------------------- imageCompressionWorker
\* The worker's onmessage handler, step by step.  A file name is the
\* sequence of its characters, a MIME type the sequence of its parts around
\* '/' (what split('/') gives).
Upper == <<"A", "B", "E", "F", "G", "I", "J", "M", "N", "P", "S", "T", "V">>
Lower == <<"a", "b", "e", "f", "g", "i", "j", "m", "n", "p", "s", "t", "v">>

\* String.prototype.toLowerCase
toLowerCase(str) ==
  [i \in DOMAIN str |->
     IF \E j \in DOMAIN Upper : Upper[j] = str[i]
       THEN Lower[CHOOSE j \in DOMAIN Upper : Upper[j] = str[i]]
       ELSE str[i]]

\* String.prototype.endsWith
endsWith(str, suffix) ==
  /\ Len(str) >= Len(suffix)
  /\ SubSeq(str, Len(str) - Len(suffix) + 1, Len(str)) = suffix

\* The type of the blob fetch() makes of the data URL FileReader produced:
\* the file's type, or application/octet-stream for a file without one.
dataUrlType(fileType) == IF fileType = <<"">> THEN <<"application", "octet-stream">> ELSE fileType

passThroughFormats ==
  {<<"image", "svg+xml">>, <<"image", "tiff">>, <<"image", "x-tiff">>, <<"image", "tif">>,
   <<"image", "x-tif">>, <<"image", "x-emf">>, <<"image", "emf">>, <<"application", "x-emf">>,
   <<"application", "emf">>}

\* A pass-through test that looks at the MIME type only.
isPassThroughByType(fileType, fileName) == fileType \in passThroughFormats

\* The condition of the pass-through branch.
isPassThrough(fileType, fileName) ==
  \/ fileType \in passThroughFormats
  \/ endsWith(fileName, <<".", "s", "v", "g">>)
  \/ endsWith(fileName, <<".", "t", "i", "f", "f">>)
  \/ endsWith(fileName, <<".", "t", "i", "f">>)
  \/ endsWith(fileName, <<".", "e", "m", "f">>)

\* fileType.split('/')[1] || 'unknown'
sourceFormat(fileType) ==
  IF Len(fileType) >= 2 /\ fileType[2] # "" THEN fileType[2] ELSE "unknown"

\* blob.type === 'image/png' || settings.originalName?.toLowerCase().endsWith('.png')
isPNG(blobType, originalName) ==
  \/ blobType = <<"image", "png">>
  \/ endsWith(toLowerCase(originalName), <<".", "p", "n", "g">>)

\* The alpha scan: only a PNG is scanned, for a pixel with alpha < 255.
hasTransparency(png, alpha) == png /\ alpha

\* A fraction <<n, d>>, d > 0.
Frac(n, d) == <<n, d>>
FracGt(x, k) == x[1] > k * x[2]

\* A size calculation that limits the width only.
limitSizeWidthOnly(width, height, maxWidth, maxHeight) ==
  IF width > maxWidth
    THEN [width |-> Frac(maxWidth, 1), height |-> Frac(maxWidth * height, width)]
    ELSE [width |-> Frac(width, 1), height |-> Frac(height, 1)]

\* if (width > maxWidth) {...}  if (height > maxHeight) {...}
limitSize(width, height, maxWidth, maxHeight) ==
  LET w1 == IF width > maxWidth THEN Frac(maxWidth, 1) ELSE Frac(width, 1)
      h1 == IF width > maxWidth THEN Frac(maxWidth * height, width) ELSE Frac(height, 1)
  IN IF FracGt(h1, maxHeight)
       THEN [width |-> Frac(maxHeight * w1[1] * h1[2], w1[2] * h1[1]), height |-> Frac(maxHeight, 1)]
       ELSE [width |-> w1, height |-> h1]

\* Math.max(1, Math.round(x * scale)), Math.round being floor(v + 1/2).
scaled(x, scale) ==
  LET r == (2 * x[1] * scale[1] + x[2] * scale[2]) \div (2 * x[2] * scale[2])
  IN IF r < 1 THEN 1 ELSE r

\* An output format that is always the requested one.
outputFormatAsRequested(format, transparent) == format

\* let outputFormat = settings.format, and the override for transparency.
outputFormat(format, transparent) ==
  IF format \in {"jpeg", "jpg"} /\ transparent THEN "png" ELSE format

\* A background fill for every output that is not png.
fillRectNotPng(format, transparent) == format # "png"

\* The condition under which the canvas is filled with #FFFFFF.
fillRect(format, transparent) == format \in {"jpeg", "jpg"} /\ ~transparent

\* A quality that is not clamped.
qualityUnclamped(q, m) ==
  IF m = "aggressive" THEN (q * 8) \div 10 ELSE IF m = "maximum" THEN (q * 6) \div 10 ELSE q

\* Math.max(0.1, Math.min(1, settings.quality)) times the mode's factor, in
\* thousandths.
quality(q, m) ==
  LET c == IF q > 1000 THEN 1000 ELSE IF q < 100 THEN 100 ELSE q
  IN IF m = "aggressive" THEN (c * 8) \div 10 ELSE IF m = "maximum" THEN (c * 6) \div 10 ELSE c

\* blobOptions: quality is set unless the output format is png.
blobOptions(format, q) ==
  IF format # "png"
    THEN [type |-> <<"image", format>>, quality |-> q]
    ELSE [type |-> <<"image", format>>]

\* OffscreenCanvas.convertToBlob: the encoding of the blob it resolves with.
\* A type the canvas has no encoder for is encoded as image/png.
convertToBlob(encoders, opts) ==
  IF opts.type[2] \in encoders THEN opts.type ELSE <<"image", "png">>

\* The messages the worker posts.
WorkerResult(b, w, h, o, t, f) ==
  [kind |-> "result", blob |-> b, width |-> w, height |-> h, originalSize |-> o,
   hasTransparency |-> t, outputFormat |-> f]
WorkerError(e) == [kind |-> "error", error |-> e]

\* What the handler did on its canvases besides posting: whether it decoded
\* the blob, the size it drew at, whether it filled the background, and the
\* options it gave convertToBlob.
Calls(dec, w, h, fill, opts) ==
  [decoded |-> dec, width |-> w, height |-> h, filled |-> fill, blobOptions |-> opts]

\* A request: the file read by compressImage and the settings posted with
\* it; the picture in the file; the encoders of the browser's canvas.
Job(f, p, s, enc) ==
  [state |-> "received",
   blob |-> [kind |-> "orig", id |-> f.id, type |-> dataUrlType(f.type), size |-> f.size],
   picture |-> p, settings |-> s, encoders |-> enc]
NoJob == [state |-> "none"]

\* The handler from the message to postMessage; sz is the size of the blob
\* the encoder produces.
onmessageRun(j, sz) ==
  LET fileType == j.blob.type
      fileName == toLowerCase(j.settings.originalName)
      png      == isPNG(j.blob.type, j.settings.originalName)
      transparent == hasTransparency(png, j.picture.alpha)
      limited  == limitSize(j.picture.width, j.picture.height, j.settings.maxWidth, j.settings.maxHeight)
      width    == scaled(limited.width, j.settings.scale)
      height   == scaled(limited.height, j.settings.scale)
      format   == outputFormat(j.settings.format, transparent)
      opts     == blobOptions(format, quality(j.settings.quality, j.settings.mode))
      encoded  == [kind |-> "enc", id |-> j.blob.id, type |-> convertToBlob(j.encoders, opts), size |-> sz]
  IN IF isPassThrough(fileType, fileName)
       THEN [out |-> WorkerResult(j.blob, 0, 0, j.settings.originalSize, TRUE, sourceFormat(fileType)),
             calls |-> Calls(FALSE, 0, 0, FALSE, NoSettings)]
     ELSE IF ~j.picture.decodable
       THEN [out |-> WorkerError(DecodeError), calls |-> Calls(TRUE, 0, 0, FALSE, NoSettings)]
     ELSE [out |-> WorkerResult(encoded, width, height, j.settings.originalSize, transparent, format),
           calls |-> Calls(TRUE, width, height, fillRect(format, transparent), opts)]

\* self.onmessage: the worker handles the request and posts its answer.
onmessage ==
  /\ job.state = "received"
  /\ \E sz \in OutSizes :
       LET run == onmessageRun(job, sz)
       IN job' = [state |-> "answered", blob |-> job.blob, picture |-> job.picture,
                  settings |-> job.settings, encoders |-> job.encoders,
                  out |-> run.out, calls |-> run.calls, posted |-> <<run.out>>]
  /\ UNCHANGED <<mode, env, imgVars, pptVars, audioVars, hostVars, options, settings, pageVars>>

\* ------------------------------------------------- audio workers
\* The two audio workers: the one that posts progress messages
\* (type 'progress' / 'complete' / 'error'), and the one of public/workers
\* that posts its result or its error only, without a type.
FetchError == "Failed to fetch audio data"
NoAudioContext == "AudioContext is not defined"
NoLamejs == "lamejs is not defined"

ProgressMessage(x) == [type |-> "progress", progress |-> x]

\* The request: whether the worker is the one with progress messages, what
\* its global scope offers, and the length of the rendered buffer.
AudioJob(progress, audioContext, encoder, numSamples) ==
  [state |-> "audioReceived", progress |-> progress, AudioContext |-> audioContext,
   lamejs |-> encoder, numSamples |-> numSamples, posted |-> <<>>]

\* self.postMessage({type: 'progress', progress: x}) for each x of xs.
postProgress(j, xs) ==
  IF j.progress THEN j.posted \o [i \in DOMAIN xs |-> ProgressMessage(<<xs[i], 1>>)] ELSE j.posted

\* Math.min(85, 45 + (i / numSamples) * 40) for i = 0, sampleBlockSize, ...
workerEncodeProgress(j) ==
  IF j.progress
    THEN [k \in 1..Blocks(j.numSamples) |->
            LET x == 45 * j.numSamples + 40 * (k - 1) * sampleBlockSize
            IN ProgressMessage(IF x > 85 * j.numSamples THEN <<85, 1>> ELSE <<x, j.numSamples>>)]
  ELSE <<>>

\* The message posted at the end of the try block.
audioWorkerResult(j, sz) ==
  IF j.progress THEN [type |-> "complete", size |-> sz] ELSE [type |-> "undefined", size |-> sz]

\* A catch block that posts nothing.
audioWorkerCatchSilent(j, posted, e) == posted

\* The catch block.
audioWorkerCatch(j, posted, e) ==
  Append(posted, IF j.progress THEN [type |-> "error", error |-> e]
                 ELSE [type |-> "undefined", error |-> e])

AudioWorkerStages == {"fetch", "blob", "arrayBuffer", "decode", "render"}

AudioWorkerError(st) ==
  IF st = "fetch" THEN FetchError ELSE IF st \in {"blob", "arrayBuffer"} THEN AudioReadError
  ELSE IF st = "decode" THEN AudioDecodeError ELSE AudioRenderError

WorkerStep == UNCHANGED <<mode, env, imgVars, pptVars, audioVars, hostVars, options, settings, pageVars>>

\* self.onmessage of an audio worker, up to await fetch(audioData).
audioOnmessage ==
  /\ job.state = "audioReceived"
  /\ job' = [job EXCEPT !.state = "fetch", !.posted = postProgress(job, <<5>>)]
  /\ WorkerStep

\* The awaited operation fulfils and the handler runs to its next await or
\* to its end.
audioWorkerContinues ==
  /\ job.state \in AudioWorkerStages
  /\ \/ /\ job.state = "fetch"
        /\ job' = [job EXCEPT !.state = "blob", !.posted = postProgress(job, <<10>>)]
     \/ /\ job.state = "blob"
        /\ job' = [job EXCEPT !.state = "arrayBuffer"]
     \/ /\ job.state = "arrayBuffer"
        /\ job' = IF job.AudioContext
                    THEN [job EXCEPT !.state = "decode", !.posted = postProgress(job, <<15>>)]
                  ELSE [job EXCEPT !.state = "audioDone",
                                   !.posted = audioWorkerCatch(job, job.posted, NoAudioContext)]
     \/ /\ job.state = "decode"
        /\ job' = [job EXCEPT !.state = "render", !.posted = postProgress(job, <<25>>)]
     \/ /\ job.state = "render"
        /\ \E sz \in OutSizes :
             job' = [job EXCEPT !.state = "audioDone",
                       !.posted =
                          IF job.lamejs
                            THEN postProgress(job, <<35, 45>>) \o workerEncodeProgress(job)
                                   \o postProgress([job EXCEPT !.posted = <<>>], <<90>>)
                                   \o <<audioWorkerResult(job, sz)>>
                          ELSE audioWorkerCatch(job, postProgress(job, <<35>>), NoLamejs)]
  /\ WorkerStep

\* The awaited operation rejects, or fetch answers with a response that is
\* not ok: the catch block.
audioWorkerThrows ==
  /\ job.state \in AudioWorkerStages
  /\ job' = [job EXCEPT !.state = "audioDone",
                        !.posted = audioWorkerCatch(job, job.posted, AudioWorkerError(job.state))]
  /\ WorkerStep

AudioWorkerJobs ==
  {AudioJob(p, c, l, n) : p \in BOOLEAN, c \in BOOLEAN, l \in BOOLEAN, n \in NumSamples}

\* The requests the worker is given.
\* The type and the name of the files: as the browser types them, without a
\* type (<<"">>), with a type and a name that disagree, and a Blob (no name).
WorkerFileKinds ==
  {<<<<"image", "png">>, <<"a", ".", "p", "n", "g">>>>,
   <<<<"">>, <<"A", ".", "P", "N", "G">>>>,
   <<<<"image", "jpeg">>, <<"d", ".", "j", "p", "g">>>>,
   <<<<"image", "jpeg">>, <<"a", ".", "p", "n", "g">>>>,
   <<<<"image", "png">>, <<>>>>,
   <<<<"image", "svg+xml">>, <<"b", ".", "s", "v", "g">>>>,
   <<<<"">>, <<"B", ".", "S", "V", "G">>>>,
   <<<<"">>, <<"i", ".", "e", "m", "f">>>>,
   <<<<"image", "tiff">>, <<"t", ".", "t", "i", "f">>>>,
   <<<<"image", "svg+xml">>, <<"a", ".", "p", "n", "g">>>>,
   <<<<"image", "jpeg">>, <<"s", "v", "g">>>>}
WorkerFile(t, n, sz) == [type |-> t, name |-> n, size |-> sz, id |-> 1]
Picture(w, h, a, ok) == [width |-> w, height |-> h, alpha |-> a, decodable |-> ok]
Formats == {"webp", "jpeg", "jpg", "png", "auto", "pptx"}
Modes == {"normal", "aggressive", "maximum", "undefined"}
Qualities == {50, 500, 900, 1000, 1500}
Scales == {<<1, 1>>, <<1, 2>>, <<2, 3>>, <<1, MaxDim>>}
Encoders == {{"png", "jpeg", "webp"}, {"png", "jpeg"}}
WorkerSettings(fmt, q, m, mw, mh, sc, f) ==
  [format |-> fmt, quality |-> q, mode |-> m, maxWidth |-> mw, maxHeight |-> mh, scale |-> sc,
   originalSize |-> f.size, originalName |-> f.name]

\* ------------------------------------------------- updateOptions
\* The page calls updateOptions(newOptions) on the compressor it uses.
updateOptions(newOptions) ==
  /\ mode = "image"
  /\ options' = [options EXCEPT !.image = spread(@, newOptions)]
  /\ UNCHANGED <<mode, env, imgVars, pptVars, audioVars, hostVars, settings, job, pageVars>>

\* UniversalPPTCompressor.updateOptions: its own options, then the image
\* compressor's.
pptUpdateOptions(newOptions) ==
  /\ mode = "ppt"
  /\ LET o == spread(options.ppt, newOptions)
     IN options' = [options EXCEPT !.ppt = o, !.image = spread(@, imageCompressorOptions(o))]
  /\ UNCHANGED <<mode, env, imgVars, pptVars, audioVars, hostVars, settings, job, pageVars>>

\* UniversalAudioCompressor.updateOptions
audioUpdateOptions(newOptions) ==
  /\ mode \in {"audio", "compressAudio"}
  /\ options' = [options EXCEPT !.audio = spread(@, newOptions)]
  /\ UNCHANGED <<mode, env, imgVars, pptVars, audioVars, hostVars, settings, job, pageVars>>

\* ------------------------------------------------- audio page
\* The page of the audio compressor: compressorRef, compressorInitPromise,
\* the React state isLameLoaded / isInitialized / error, the lamejs <script>
\* it inserts, and a log of what each caller of initializeCompressor obtained.
\* A compressor is named by the order of its construction; 0 is null.
LameMissing == "lamejs Mp3Encoder not available"
ScriptFailed == "Failed to load audio compression library"
NotInitialized == "Compressor not initialized"

NoPage == [script |-> "unmounted"]

InitPromise(st, v) == [state |-> st, value |-> v]

\* The page after its mount effects ran; present tells whether window.lamejs
\* was there already.
MountedPage(present) ==
  [lamejs |-> present,
   script |-> IF present THEN "none" ELSE "loading",
   isLameLoaded |-> present,
   isInitialized |-> FALSE,
   rendered |-> [isLameLoaded |-> FALSE, isInitialized |-> FALSE],
   effectDue |-> FALSE,
   compressorRef |-> 0,
   compressorInitPromise |-> InitPromise("null", 0),
   constructed |-> 0,
   error |-> NoError,
   calls |-> <<>>]

verifyLamejs(p) == p.lamejs

\* initializeCompressor without the two early returns.
initializeCompressorUncached(p) ==
  IF verifyLamejs(p)
    THEN LET c == p.constructed + 1
         IN [page |-> [p EXCEPT !.constructed = c, !.compressorRef = c, !.isInitialized = TRUE,
                                !.compressorInitPromise = InitPromise("resolved", c)],
             promise |-> InitPromise("resolved", c)]
  ELSE [page |-> [p EXCEPT !.error = LameMissing,
                           !.compressorInitPromise = InitPromise("rejected", 0)],
        promise |-> InitPromise("rejected", 0)]

\* initializeCompressor: the page after the call, and the promise returned.
initializeCompressor(p) ==
  IF p.compressorRef # 0
    THEN [page |-> [p EXCEPT !.isInitialized = TRUE],
          promise |-> InitPromise("resolved", p.compressorRef)]
  ELSE IF p.compressorInitPromise.state # "null"
    THEN [page |-> p, promise |-> p.compressorInitPromise]
  ELSE IF verifyLamejs(p)
    THEN LET c == p.constructed + 1
         IN [page |-> [p EXCEPT !.constructed = c, !.compressorRef = c, !.isInitialized = TRUE,
                                !.compressorInitPromise = InitPromise("resolved", c)],
             promise |-> InitPromise("resolved", c)]
  ELSE [page |-> [p EXCEPT !.error = LameMissing,
                           !.compressorInitPromise = InitPromise("rejected", 0)],
        promise |-> InitPromise("rejected", 0)]

\* One entry of the log: who called, with window.lamejs there or not, and
\* the compressor obtained (0: the call failed).
PageCall(by, f, present, got, e) ==
  [by |-> by, file |-> f, lamejs |-> present, got |-> got, error |-> e]

\* Calls of initializeCompressor and handleCompress the page makes.
MaxCalls == 3

PageFiles == {"a.wav", "b.mp3"}

\* script.onload
scriptOnload ==
  /\ mode = "page"
  /\ page.script = "loading"
  /\ page' = [page EXCEPT !.script = "loaded", !.lamejs = TRUE, !.isLameLoaded = TRUE]
  /\ UNCHANGED <<mode, env, imgVars, pptVars, audioVars, hostVars, cfgVars, compressionHistory, onProgress>>

\* script.onerror
scriptOnerror ==
  /\ mode = "page"
  /\ page.script = "loading"
  /\ page' = [page EXCEPT !.script = "failed", !.error = ScriptFailed]
  /\ UNCHANGED <<mode, env, imgVars, pptVars, audioVars, hostVars, cfgVars, compressionHistory, onProgress>>

\* React renders the page again after isLameLoaded or isInitialized changed,
\* and schedules the effect that depends on them.  A scheduled effect runs
\* before the next render.
render ==
  /\ mode = "page"
  /\ ~page.effectDue
  /\ page.rendered # [isLameLoaded |-> page.isLameLoaded, isInitialized |-> page.isInitialized]
  /\ page' = [page EXCEPT !.rendered = [isLameLoaded |-> page.isLameLoaded,
                                        isInitialized |-> page.isInitialized],
                          !.effectDue = TRUE]
  /\ UNCHANGED <<mode, env, imgVars, pptVars, audioVars, hostVars, cfgVars, compressionHistory, onProgress>>

\* useEffect(() => { if (isLameLoaded && !isInitialized) initializeCompressor() })
\* with the values of the render that scheduled it.
loadEffect ==
  /\ mode = "page"
  /\ page.effectDue
  /\ IF page.rendered.isLameLoaded /\ ~page.rendered.isInitialized /\ Len(page.calls) < MaxCalls
       THEN LET r == initializeCompressor(page)
            IN page' = [r.page EXCEPT !.effectDue = FALSE,
                          !.calls = Append(@, PageCall("effect", "", page.lamejs, r.promise.value,
                                                       IF r.promise.state = "rejected"
                                                         THEN LameMissing ELSE NoError))]
     ELSE page' = [page EXCEPT !.effectDue = FALSE]
  /\ UNCHANGED <<mode, env, imgVars, pptVars, audioVars, hostVars, cfgVars, compressionHistory, onProgress>>

\* handleCompress(file), up to the compressor it will use.
handleCompress(f) ==
  /\ mode = "page"
  /\ Len(page.calls) < MaxCalls
  /\ IF page.compressorRef # 0
       THEN page' = [page EXCEPT !.calls = Append(@, PageCall("handleCompress", f, page.lamejs,
                                                             page.compressorRef, NoError))]
     ELSE LET r == initializeCompressor(page)
          IN page' = [r.page EXCEPT
                        !.calls = Append(@, PageCall("handleCompress", f, page.lamejs, r.promise.value,
                                                     IF r.promise.state = "rejected"
                                                       THEN NotInitialized ELSE NoError))]
  /\ UNCHANGED <<mode, env, imgVars, pptVars, audioVars, hostVars, cfgVars, compressionHistory, onProgress>>

\* ------------------------------------------------- specification
InitImage ==
  /\ mode = "image"
  /\ env \in {"browser", "server", "blocked"}
  /\ \E b \in ImageBatches : imgFiles = MkImageFiles(b)
  /\ imgPc = "loop"
  /\ pptFiles = <<>>
  /\ pptPc = "idle"
  /\ aFiles = <<>>
  /\ aPc = "idle"

InitPpt ==
  /\ mode = "ppt"
  /\ env \in {"browser", "server", "blocked"}
  /\ imgFiles = <<>>
  /\ imgPc = "idle"
  /\ \E b \in PptBatches : pptFiles = MkPptFiles(b)
  /\ pptPc = "loop"
  /\ aFiles = <<>>
  /\ aPc = "idle"

\* The constructor of UniversalAudioCompressor throws outside a browser.
InitAudio ==
  /\ mode = "audio"
  /\ env = "browser"
  /\ imgFiles = <<>>
  /\ imgPc = "idle"
  /\ pptFiles = <<>>
  /\ pptPc = "idle"
  /\ \E b \in AudioBatches : aFiles = MkAudioFiles(b)
  /\ aPc = "loop"

\* The state every compressor starts from: no worker yet, nothing submitted.
InitRest ==
  /\ worker = "null"
  /\ inv = <<>>
  /\ listeners = {}
  /\ inflight = {}
  /\ imgIdx = 0
  /\ imgResults = <<>>
  /\ imgCur = 0
  /\ imgPromise = Pending
  /\ pptIdx = 0
  /\ pptResults = <<>>
  /\ pptMedia = <<>>
  /\ pptCompressed = <<>>
  /\ pptOutcome = NoOutcome
  /\ lamejs = "null"
  /\ aIdx = 0
  /\ aResults = <<>>
  /\ aHung = FALSE
  /\ aPromise = Pending
  /\ events = <<>>
  /\ created = 0
  /\ terminated = 0
  /\ aSettings = NoSettings
  /\ compressionHistory = <<>>
  /\ onProgress = <<>>

\* The compressors are constructed without options, the batch is called
\* without settings, and no request is handed to the worker directly.
InitConfig ==
  /\ options = Constructed(NoSettings)
  /\ settings = NoSettings
  /\ job = NoJob
  /\ page = NoPage

Init == (InitImage \/ InitPpt \/ InitAudio) /\ InitRest /\ InitConfig /\ stats = NoStats

\* A batch given to the image compressor.
ImageInit == InitImage /\ InitRest /\ InitConfig /\ stats = NoStats

ImageNext ==
  \/ compressBatchIter
  \/ compressBatchResume
  \/ compressBatchReturn
  \/ \E k \in DOMAIN inv : readerOnload(k)
  \/ \E k \in DOMAIN inv : readerOnerror(k)
  \/ \E k \in DOMAIN inv : timeoutFires(k)
  \/ \E k \in DOMAIN inv : workerResponds(k)

PptNext ==
  \/ pptBatchIter
  \/ pptExtracted
  \/ pptImagesDone
  \/ pptRepacked
  \/ pptBatchResume
  \/ pptBatchReturn

Next == ImageNext \/ PptNext \/ AudioNext

Spec == Init /\ [][Next]_vars

\* A page that runs an image or a PPTX batch and may call destroy() on its
\* compressor at any moment.
\* What the files hold does not matter to the worker's lifecycle: the image
\* batches are of one raster file repeated, the PPTX batches of archives
\* with one media member.
LifecycleInit ==
  /\ \/ InitImage /\ \A i \in 1..Len(imgFiles) : imgFiles[i].name = "a.png" /\ imgFiles[i].size = 1
     \/ InitPpt /\ \A i \in 1..Len(pptFiles) : Len(pptFiles[i].zip) = 3
  /\ InitRest
  /\ InitConfig
  /\ stats = NoStats

LifecycleNext ==
  \/ ImageNext
  \/ PptNext
  \/ mode = "image" /\ destroy
  \/ mode = "ppt" /\ pptDestroy

LifecycleSpec == LifecycleInit /\ [][LifecycleNext]_vars

\* A page that holds a result sequence and asks for its statistics; no batch
\* is running.
StatsInit ==
  /\ mode = "stats"
  /\ env = "browser"
  /\ imgFiles = <<>>
  /\ imgPc = "idle"
  /\ pptFiles = <<>>
  /\ pptPc = "idle"
  /\ aFiles = <<>>
  /\ aPc = "idle"
  /\ InitRest
  /\ InitConfig
  /\ \E r \in StatsInputs : stats = [NoStats EXCEPT !.given = r]

StatsNext ==
  \/ getStatsCall(stats.given)
  \/ audioGetStatsCall(stats.given)

StatsSpec == StatsInit /\ [][StatsNext]_vars

\* An image batch during which the page asks for the statistics of the
\* results produced so far, or of some of the first of them.
BatchStatsNext ==
  \/ ImageNext
  \/ \E n \in 0..Len(imgResults) : getStatsCall(SubSeq(imgResults, 1, n))

BatchStatsSpec == ImageInit /\ [][BatchStatsNext]_vars

\* The image worker alone, given one request.  The requests are of two
\* families: every file, format, quality and mode with a 1000 x 800 picture
\* under the limits 1920 x 1080; and every size, limit and scale with an
\* opaque PNG and the default settings.
WorkerJobs ==
  {Job(WorkerFile(k[1], k[2], 1), Picture(1000, 800, a, TRUE),
       WorkerSettings(fmt, q, m, 1920, 1080, <<1, 1>>, WorkerFile(k[1], k[2], 1)), enc) :
     k \in WorkerFileKinds, a \in BOOLEAN,
     fmt \in Formats, q \in Qualities, m \in Modes, enc \in Encoders}
  \cup
  {Job(WorkerFile(<<"image", "png">>, <<"a", ".", "p", "n", "g">>, sz), Picture(w, h, FALSE, ok),
       WorkerSettings("webp", 900, "aggressive", mw, mh, sc,
                      WorkerFile(<<"image", "png">>, <<"a", ".", "p", "n", "g">>, sz)),
       {"png", "jpeg", "webp"}) :
     sz \in {1, MaxSize}, w \in 1..MaxDim, h \in 1..MaxDim, ok \in BOOLEAN,
     mw \in 0..MaxDim, mh \in 0..MaxDim, sc \in Scales}

WorkerInit ==
  /\ mode = "worker"
  /\ env = "browser"
  /\ imgFiles = <<>>
  /\ imgPc = "idle"
  /\ pptFiles = <<>>
  /\ pptPc = "idle"
  /\ aFiles = <<>>
  /\ aPc = "idle"
  /\ InitRest
  /\ options = Constructed(NoSettings)
  /\ settings = NoSettings
  /\ stats = NoStats
  /\ page = NoPage
  /\ job \in WorkerJobs

WorkerSpec == WorkerInit /\ [][onmessage]_vars

\* A page that constructs its compressor with or without options, passes
\* settings to the batch call, and may call updateOptions at any moment.
\* The files are as in LifecycleInit; the audio batches are of one file.
GivenOptions ==
  {NoSettings,
   [quality |-> 800, maxWidth |-> 1920, maxHeight |-> 1080, scale |-> <<1, 1>>, format |-> "auto"]}
CallSettings ==
  {NoSettings, [mode |-> "maximum"],
   [format |-> "jpeg", originalSize |-> 99, originalName |-> "x.svg"]}
NewOptions == {[quality |-> 500], [format |-> "png", mode |-> "normal"]}

OptionsInit ==
  /\ \/ InitImage /\ env = "browser"
               /\ \A i \in 1..Len(imgFiles) : imgFiles[i].name = "a.png" /\ imgFiles[i].size = 1
     \/ InitPpt /\ env = "browser" /\ Len(pptFiles) <= 1
                /\ \A i \in 1..Len(pptFiles) : Len(pptFiles[i].zip) = 3
     \/ InitAudio /\ Len(aFiles) <= 1
  /\ InitRest
  /\ \E g \in GivenOptions : options = Constructed(g)
  /\ settings \in CallSettings
  /\ job = NoJob
  /\ page = NoPage
  /\ stats = NoStats

OptionsNext ==
  \/ ImageNext
  \/ PptNext
  \/ AudioNext
  \/ \E n \in NewOptions : updateOptions(n)
  \/ \E n \in NewOptions : pptUpdateOptions(n)
  \/ \E n \in NewOptions : audioUpdateOptions(n)

OptionsSpec == OptionsInit /\ [][OptionsNext]_vars

\* A PPTX batch of one file, whose name is any of PptNames.
PptNames ==
  {PptName, <<"deck", ".pptx", ".old", ".pptx">>, <<"DECK", ".PPTX">>, <<"deck", ".final", ".pptx">>}

RenameInit ==
  /\ mode = "ppt"
  /\ env = "browser"
  /\ imgFiles = <<>>
  /\ imgPc = "idle"
  /\ \E k \in {"corrupt", "a0", "a1"}, n \in PptNames :
       pptFiles = <<[MkPptFile(k, MaxSize, 1) EXCEPT !.name = n]>>
  /\ pptPc = "loop"
  /\ aFiles = <<>>
  /\ aPc = "idle"
  /\ InitRest
  /\ InitConfig
  /\ stats = NoStats

RenameSpec == RenameInit /\ [][ImageNext \/ PptNext]_vars

\* The audio page from its mount on: the script loads or fails, React renders
\* and runs the effect, and handleCompress is called at any moment.
PageInit ==
  /\ mode = "page"
  /\ env = "browser"
  /\ imgFiles = <<>>
  /\ imgPc = "idle"
  /\ pptFiles = <<>>
  /\ pptPc = "idle"
  /\ aFiles = <<>>
  /\ aPc = "idle"
  /\ InitRest
  /\ options = Constructed(NoSettings)
  /\ settings = NoSettings
  /\ job = NoJob
  /\ stats = NoStats
  /\ \E present \in BOOLEAN : page = MountedPage(present)

PageNext ==
  \/ scriptOnload
  \/ scriptOnerror
  \/ render
  \/ loadEffect
  \/ \E f \in PageFiles : handleCompress(f)

PageSpec == PageInit /\ [][PageNext]_vars

\* The audio compressor used by a batch, or by a page that calls
\* compressAudio with a callback; updateOptions is called at any moment.
InitCompressAudio ==
  /\ mode = "compressAudio"
  /\ env = "browser"
  /\ imgFiles = <<>>
  /\ imgPc = "idle"
  /\ pptFiles = <<>>
  /\ pptPc = "idle"
  /\ \E b \in AudioBatches : aFiles = MkAudioFiles(b)
  /\ aPc = "loop"

AudioInit ==
  /\ InitAudio \/ InitCompressAudio
  /\ InitRest
  /\ InitConfig
  /\ stats = NoStats

AudioUseNext ==
  \/ mode = "audio" /\ AudioNext
  \/ compressAudioCall
  \/ mode = "compressAudio" /\ audioStageSettles
  \/ mode = "compressAudio" /\ audioStageHangs
  \/ compressAudioResume
  \/ \E n \in NewOptions : audioUpdateOptions(n)

AudioSpec == AudioInit /\ [][AudioUseNext]_vars

\* A worker, of images or of audio, given one request.
MessagesInit ==
  /\ mode = "worker"
  /\ env = "browser"
  /\ imgFiles = <<>>
  /\ imgPc = "idle"
  /\ pptFiles = <<>>
  /\ pptPc = "idle"
  /\ aFiles = <<>>
  /\ aPc = "idle"
  /\ InitRest
  /\ options = Constructed(NoSettings)
  /\ settings = NoSettings
  /\ stats = NoStats
  /\ page = NoPage
  /\ job \in WorkerJobs \cup AudioWorkerJobs

MessagesNext ==
  \/ onmessage
  \/ audioOnmessage
  \/ audioWorkerContinues
  \/ audioWorkerThrows

MessagesSpec == MessagesInit /\ [][MessagesNext]_vars

\* Invocation numbers of an image batch.
InvIds == 1..MaxFiles

\* The image batch alone, with the scheduling the event loop guarantees: a
\* ready continuation runs, and an armed timer fires.  Nothing is assumed of
\* the worker, which may never answer, nor of the FileReader.
FairImageSpec ==
  /\ ImageInit
  /\ [][ImageNext]_vars
  /\ WF_vars(compressBatchIter \/ compressBatchResume \/ compressBatchReturn)
  /\ \A k \in InvIds : WF_vars(timeoutFires(k))

\* ------------------------------------------------- a worker that reports progress
\* The worker posts a progress notification for request k, as the audio
\* worker does before its terminal message ({type: 'progress', progress, status}:
\* no error field, no blob field).  The request stays unanswered.
workerPostsProgress(k) ==
  /\ ~Runnable
  /\ k \in inflight
  /\ Dispatch(Msg("progress", k, EmptyBlob, 0, NoError))
  /\ UNCHANGED <<audioVars, pptVars, mode, env, worker, inflight, imgFiles, imgIdx, imgResults, imgPc, imgCur>>
  /\ UNCHANGED <<events, created, terminated, stats>>
  /\ UNCHANGED <<options, settings, job, page, compressionHistory, onProgress>>

ProgressNext ==
  \/ ImageNext
  \/ \E k \in DOMAIN inv : workerPostsProgress(k)

\* compressImage's message handling on a channel whose worker reports
\* progress before it answers.
ProgressSpec == ImageInit /\ [][ProgressNext]_vars

\* ------------------------------------------------- properties
\* C1: when a compressBatch (image, audio, PPTX) has returned, it has
\* returned exactly one result per input file, and result i has
\* originalSize = files[i].size, whatever mix of successes and failures
\* occurred; the empty list gives the empty list.
C1_BatchResultsMatchInputs ==
  /\ imgPc = "done" =>
       /\ Len(imgResults) = Len(imgFiles)
       /\ \A i \in 1..Len(imgFiles) : imgResults[i].originalSize = imgFiles[i].size
  /\ pptPc = "done" =>
       /\ Len(pptResults) = Len(pptFiles)
       /\ \A i \in 1..Len(pptFiles) : pptResults[i].originalSize = pptFiles[i].size
  /\ aPc = "done" =>
       /\ Len(aResults) = Len(aFiles)
       /\ \A i \in 1..Len(aFiles) : aResults[i].originalSize = aFiles[i].size

\* An image batch of two files of different sizes has returned, the first
\* item failed and the second succeeded.
C1_Witness ==
  /\ mode = "image" /\ imgPc = "done" /\ Len(imgFiles) = 2
  /\ imgFiles[1].size # imgFiles[2].size
  /\ Len(imgResults) = 2
  /\ imgResults[1].error # NoError
  /\ imgResults[2].error = NoError

\* C2: when the call for item i has failed (its promise is rejected), the
\* next step of the batch appends exactly one result for item i that carries
\* the error text and goes back to the loop head with i + 1; and at the loop
\* head with items left, the next step is the call for the next item.
C2_FailureBecomesResult ==
  [][ /\ (imgPc = "await" /\ imgPromise.state = "rejected") =>
           /\ Len(imgResults') = Len(imgResults) + 1
           /\ SubSeq(imgResults', 1, Len(imgResults)) = imgResults
           /\ imgResults'[Len(imgResults')].error = imgPromise.error
           /\ imgPromise.error # NoError
           /\ imgResults'[Len(imgResults')].originalSize = imgFiles[imgIdx + 1].size
           /\ imgIdx' = imgIdx + 1
           /\ imgPc' = "loop"
      /\ (imgPc = "loop" /\ imgIdx < Len(imgFiles)) =>
           imgPc' = "await" /\ Len(inv') = Len(inv) + 1 /\ inv'[Len(inv')].file = imgFiles[imgIdx + 1]
      /\ (pptPc = "resume" /\ pptOutcome.state = "rejected") =>
           /\ Len(pptResults') = Len(pptResults) + 1
           /\ SubSeq(pptResults', 1, Len(pptResults)) = pptResults
           /\ pptResults'[Len(pptResults')].error = pptOutcome.error
           /\ pptOutcome.error # NoError
           /\ pptResults'[Len(pptResults')].originalSize = pptFiles[pptIdx + 1].size
           /\ pptIdx' = pptIdx + 1
           /\ pptPc' = "loop"
      /\ (pptPc = "loop" /\ pptIdx < Len(pptFiles)) => pptPc' \in {"extract", "resume"}
      /\ (aPc = "resume" /\ aPromise.state = "rejected") =>
           /\ Len(aResults') = Len(aResults) + 1
           /\ SubSeq(aResults', 1, Len(aResults)) = aResults
           /\ aResults'[Len(aResults')].error = aPromise.error
           /\ aPromise.error # NoError
           /\ aIdx' = aIdx + 1
           /\ aPc' = "loop"
      /\ (aPc = "loop" /\ aIdx < Len(aFiles)) => aPc' \in AudioStages
    ]_vars

\* The first image of a batch timed out, its result carries the timeout
\* error, and the second image has been submitted.
C2_Witness ==
  /\ mode = "image"
  /\ Len(imgResults) >= 1
  /\ imgResults[1].error = TimeoutError
  /\ Len(inv) = 2

\* C3: the worker message that settles a compressImage call is the answer
\* to that call's own request; a late answer to an earlier, timed-out item
\* never settles a later item.
C3_OwnResponseOnly == imgPromise.from \in {0, imgCur}

\* C4: a call whose request the worker has not answered and that no worker
\* message settled can only have been rejected with 'Compression timeout';
\* and, with timers firing, every image batch that starts returns.
C4_TimeoutBoundsImageBatch ==
  /\ [](imgPc = "await" /\ imgCur \in inflight /\ imgPromise.state # "none" /\ imgPromise.from = 0
          => imgPromise.state = "rejected" /\ imgPromise.error = TimeoutError)
  /\ (imgPc = "loop") ~> (imgPc = "done")

\* The worker never answered the request of the first item: the item's
\* result carries the timeout error and the batch of two has returned.
C4_Witness ==
  /\ mode = "image" /\ imgPc = "done" /\ Len(imgFiles) = 2
  /\ 1 \in inflight
  /\ Len(imgResults) = 2
  /\ imgResults[1].error = TimeoutError

\* C5: an audio item whose decoding or rendering never completes does not
\* block the batch: the batch can still take a step (the timeout that turns
\* the item into an error result).
C5_HungAudioItemTimesOut == aHung => ENABLED AudioNext

ErrorMeansEmpty(r) == r.error # NoError => r.size = 0 /\ r.blob = EmptyBlob
SuccessMeansBytes(r, pt) == r.error = NoError => r.size > 0 \/ (pt /\ r.size = r.originalSize)

\* C7: every result (pushed by a compressBatch, or the value compressImage or
\* compressPPT resolved with) that has an error has size 0 and an empty
\* payload, and every result without an error has a size greater than 0, or
\* equal to originalSize for a pass-through item.
C7_ErrorIffEmpty ==
  /\ \A i \in 1..Len(imgResults) :
       ErrorMeansEmpty(imgResults[i]) /\ SuccessMeansBytes(imgResults[i], imgFiles[i].pt)
  /\ imgPromise.state = "resolved" =>
       /\ ErrorMeansEmpty(imgPromise.result)
       /\ SuccessMeansBytes(imgPromise.result, inv[imgCur].file.pt)
  /\ \A i \in 1..Len(pptResults) :
       ErrorMeansEmpty(pptResults[i]) /\ SuccessMeansBytes(pptResults[i], FALSE)
  /\ pptOutcome.state = "resolved" =>
       /\ ErrorMeansEmpty(pptOutcome.result)
       /\ SuccessMeansBytes(pptOutcome.result, FALSE)
  /\ \A i \in 1..Len(aResults) :
       ErrorMeansEmpty(aResults[i]) /\ SuccessMeansBytes(aResults[i], FALSE)

\* The archive of file f has no non-directory entry under ppt/media/.
HasNoMedia(f) ==
  /\ f.valid
  /\ ~\E j \in 1..Len(f.zip) :
        /\ Len(f.zip[j].path) >= 3
        /\ f.zip[j].path[1] = "ppt"
        /\ f.zip[j].path[2] = "media"
        /\ ~f.zip[j].dir

\* The result of compressPPT for such a file: the given error text, the
\* file itself as payload, no member compressed and no repack prepared.
NoMediaOutcome(text) ==
  (pptPc = "resume" /\ HasNoMedia(pptFiles[pptIdx + 1])) =>
    /\ pptOutcome.state = "resolved"
    /\ pptOutcome.result.error = text
    /\ pptOutcome.result.blob = [kind |-> "orig", id |-> pptFiles[pptIdx + 1].id]
    /\ pptOutcome.result.zip = pptFiles[pptIdx + 1].zip
    /\ pptOutcome.result.size = pptFiles[pptIdx + 1].size
    /\ pptMedia = <<>>
    /\ pptCompressed = <<>>

\* C8 as stated: the error of the no-media result is "no media members found".
C8_NoMediaAsStated == NoMediaOutcome("no media members found")

\* C8, amended: compressPPT on an archive without a non-directory entry
\* under ppt/media/ returns a result whose error is 'No media files found in
\* PPTX' and whose payload is the original file, unchanged; no member is
\* compressed and no archive is rebuilt.
C8_NoMediaReturnsOriginal == NoMediaOutcome("No media files found in PPTX")

\* compressPPT has returned for an archive whose only entry under ppt/media/
\* is the directory itself.
C8_Witness ==
  /\ pptPc = "resume"
  /\ HasNoMedia(pptFiles[pptIdx + 1])
  /\ \E j \in 1..Len(pptFiles[pptIdx + 1].zip) : pptFiles[pptIdx + 1].zip[j].dir
  /\ pptOutcome.state = "resolved"

\* The set of entry paths of archive z, and the data stored at path p.
PathsOf(z) == {z[j].path : j \in 1..Len(z)}
DataAt(z, p) == z[CHOOSE j \in 1..Len(z) : z[j].path = p].data

\* C9: in the archive compressPPT returns, a member whose compression
\* failed is present at its path with its original bytes.
C9_FailedMemberKeepsOriginal ==
  (pptPc = "resume" /\ pptOutcome.state = "resolved" /\ Len(pptMedia) > 0) =>
    \A j \in 1..Len(pptCompressed) :
      pptCompressed[j].failed =>
        /\ pptCompressed[j].path \in PathsOf(pptOutcome.result.zip)
        /\ DataAt(pptOutcome.result.zip, pptCompressed[j].path)
             = DataAt(pptFiles[pptIdx + 1].zip, pptCompressed[j].path)

\* Archive out has the entry paths of file f's archive, each once and in the
\* same order, and its entries outside ppt/media/ are those of f.
ArchivePreserved(out, f) ==
  /\ Len(out) = Len(f.zip)
  /\ \A j \in 1..Len(out) :
       /\ out[j].path = f.zip[j].path
       /\ ~(Len(out[j].path) >= 3 /\ out[j].path[1] = "ppt" /\ out[j].path[2] = "media")
            => out[j] = f.zip[j]

\* C10: the archive compressPPT returns has exactly the entry paths of the
\* input archive, every entry outside ppt/media/ is identical to the
\* input's, and the input files are as they were given.
C10_ArchiveFramePreserved ==
  /\ (pptPc = "resume" /\ pptOutcome.state = "resolved") =>
       ArchivePreserved(pptOutcome.result.zip, pptFiles[pptIdx + 1])
  /\ \A i \in 1..Len(pptResults) :
       pptResults[i].error = NoError => ArchivePreserved(pptResults[i].zip, pptFiles[i])
  /\ \A i \in 1..Len(pptFiles) :
       \E pi \in PptInputs : pptFiles[i] = MkPptFile(pi[1], pi[2], i)

\* compressPPT has returned a rebuilt archive in which a media member was
\* replaced by its encoding, next to an entry outside ppt/media/.
C10_Witness ==
  /\ pptPc = "resume"
  /\ pptOutcome.state = "resolved"
  /\ \E j \in 1..Len(pptOutcome.result.zip) : pptOutcome.result.zip[j].data.kind = "enc"
  /\ \E j \in 1..Len(pptOutcome.result.zip) : Len(pptOutcome.result.zip[j].path) = 1

\* The stats scenario: originalSizes [100, 200], compressed sizes [50, error].
StatsScenario == <<StatsResult(100, 50, NoError), StatsResult(200, 0, TimeoutError)>>

ScenarioStats(saved) ==
  (stats.called /\ stats.given = StatsScenario) =>
    /\ stats.value.successCount = 1
    /\ stats.value.failedCount = 1
    /\ stats.value.totalSaved = saved
    /\ stats.value.totalOriginalSize = 300
    /\ stats.value.totalCompressedSize = 50

\* C11 as stated: on the scenario getCompressionStats returns successCount 1,
\* failedCount 1, totalSaved 50, totalOriginalSize 300, totalCompressedSize 50.
C11_ScenarioAsStated == ScenarioStats(50)

\* C11, amended: on the scenario getCompressionStats returns successCount 1,
\* failedCount 1, totalOriginalSize 300, totalCompressedSize 50 and
\* totalSaved 250 (= 300 - 50).
C11_ScenarioStats == ScenarioStats(250)

\* getCompressionStats has been called on the scenario's results.
C11_Witness == stats.called /\ stats.given = StatsScenario

\* The sum of field f of the results of r at the indices in S.
RECURSIVE Total(_, _, _)
Total(r, S, f) ==
  IF S = {} THEN 0
  ELSE LET i == CHOOSE j \in S : TRUE IN r[i][f] + Total(r, S \ {i}, f)

\* v is the statistics of r: counts and sums as the spec defines them, the
\* average ratio 0 for an empty total and otherwise the percentage saved,
\* to the nearest tenth.
IsStatsOf(v, r) ==
  LET all == 1..Len(r)
      ok == {i \in all : r[i].error = NoError}
      d == v.averageCompressionRatio.tenths * v.totalOriginalSize - v.totalSaved * 1000
  IN /\ v.totalFiles = Len(r)
     /\ v.successCount = Cardinality(ok)
     /\ v.failedCount = v.totalFiles - v.successCount
     /\ v.totalOriginalSize = Total(r, all, "originalSize")
     /\ v.totalCompressedSize = Total(r, ok, "size")
     /\ v.totalSaved = v.totalOriginalSize - v.totalCompressedSize
     /\ v.totalOriginalSize = 0 => v.averageCompressionRatio.tenths = 0
     /\ v.totalOriginalSize > 0 => 2 * d <= v.totalOriginalSize /\ 0 - 2 * d <= v.totalOriginalSize

\* C12: for every result sequence, getCompressionStats (image, PPTX, audio)
\* returns totalFiles = number of results, successCount = number of results
\* without error, failedCount = totalFiles - successCount, totalOriginalSize
\* = sum of originalSize over all results, totalCompressedSize = sum of size
\* over the results without error, totalSaved = their difference, and an
\* average ratio of 0 when totalOriginalSize = 0.
C12_StatsAreTheReduction == stats.called => IsStatsOf(stats.value, stats.given)

\* Statistics were returned for two results, one failed, whose original
\* sizes sum to 0.
C12_Witness ==
  /\ stats.called
  /\ Len(stats.given) = 2
  /\ stats.value.failedCount = 1
  /\ stats.value.totalOriginalSize = 0

\* C13: getCompressionStats called on a prefix of the batch's results, at
\* any moment of the batch, returns the statistics of exactly that prefix,
\* returns the same for the same input, and changes nothing but what it
\* returns: results, worker, progress events and the batch stay as they are.
C13_StatsIsPure ==
  /\ [](stats.called => /\ IsStatsOf(stats.value, stats.given)
                        /\ Len(stats.given) <= Len(imgResults)
                        /\ stats.given = SubSeq(imgResults, 1, Len(stats.given)))
  /\ [][/\ stats' # stats =>
             UNCHANGED <<mode, env, imgVars, pptVars, audioVars, events, created, terminated>>
        /\ (stats.called /\ stats'.given = stats.given) => stats'.value = stats.value
       ]_vars

\* The statistics of the first result alone were asked for while the
\* second image of the batch was being compressed.
C13_Witness ==
  /\ imgPc = "await"
  /\ Len(imgResults) = 1
  /\ imgIdx = 1
  /\ stats.called
  /\ stats.value.totalFiles = 1

\* The batch the page started: its number of items, the results it has
\* pushed and whether it has returned.
BatchSize == IF mode = "image" THEN Len(imgFiles) ELSE IF mode = "ppt" THEN Len(pptFiles) ELSE Len(aFiles)
BatchPushed == IF mode = "image" THEN Len(imgResults) ELSE IF mode = "ppt" THEN Len(pptResults) ELSE Len(aResults)
BatchReturned == IF mode = "image" THEN imgPc = "done" ELSE IF mode = "ppt" THEN pptPc = "done" ELSE aPc = "done"

\* Fraction p is at most fraction q.
FractionLeq(p, q) == p[1] * q[2] <= q[1] * p[2]

\* C14: a compressBatch with a progress callback and n items emits n + 1
\* events: the event of item i has progress i/n and comes when i results
\* have been pushed and before item i is submitted, the last event has
\* progress 1 and status 'Completed' and comes when the batch returns (the
\* only event for n = 0); the progress values never decrease and lie in [0,1].
C14_ProgressEvents ==
  /\ Len(events) <= BatchSize + 1
  /\ BatchReturned <=> Len(events) = BatchSize + 1
  /\ ~BatchReturned => Len(events) \in {BatchPushed, BatchPushed + 1}
  /\ mode = "image" /\ ~BatchReturned => Len(inv) = Len(events)
  /\ \A j \in 1..Len(events) :
       /\ j <= BatchSize =>
            /\ events[j].progress[1] * BatchSize = (j - 1) * events[j].progress[2]
            /\ events[j].status = "Processing..."
       /\ j = BatchSize + 1 =>
            /\ events[j].progress[1] = events[j].progress[2]
            /\ events[j].status = "Completed"
       /\ events[j].progress[2] > 0
       /\ 0 <= events[j].progress[1]
       /\ events[j].progress[1] <= events[j].progress[2]
       /\ \A k \in 1..j : FractionLeq(events[k].progress, events[j].progress)

\* An image batch of two items has returned after three progress events.
C14_Witness ==
  /\ mode = "image"
  /\ imgPc = "done"
  /\ Len(imgFiles) = 2
  /\ Len(events) = 3

\* C15: an item is submitted only when the call for the item before it has
\* settled and its result has been pushed, the items are submitted in input
\* order, and a request is posted only for a call already made, so after
\* every call before it has settled (image, PPTX and audio batches).
C15_OneItemAtATime ==
  [][ /\ Len(inv') # Len(inv) =>
           /\ Len(inv') = Len(inv) + 1
           /\ imgIdx = 0 \/ imgPromise.state # "none"
           /\ Len(imgResults) = imgIdx
           /\ inv'[Len(inv')].file = imgFiles[imgIdx + 1]
      /\ \A k \in DOMAIN inv' :
           (k \in DOMAIN inv /\ inv'[k].posts # inv[k].posts) => k <= imgCur
      /\ (aPc = "loop" /\ aPc' \in AudioStages) =>
           /\ aIdx = 0 \/ aPromise.state # "none"
           /\ Len(aResults) = aIdx
      /\ (pptPc = "loop" /\ pptPc' \in {"extract", "resume"}) => Len(pptResults) = pptIdx
    ]_vars

\* The second image was posted to the worker after the first one had
\* timed out and its result had been pushed.
C15_Witness ==
  /\ mode = "image"
  /\ imgPc = "await"
  /\ Len(imgResults) = 1
  /\ imgResults[1].error = TimeoutError
  /\ Len(inv) = 2
  /\ inv[2].posts = 1

\* C16: the worker never holds more than one request it has not answered.
C16_OneRequestInFlight == Cardinality(inflight) <= 1

\* C17: no worker is constructed before the first compressImage call; over
\* the calls of a session without destroy at most one worker is constructed,
\* in a browser exactly one from the first call on, and every request is
\* posted to it.
C17_LazySingleWorker ==
  /\ Len(inv) = 0 => worker = "null" /\ created = 0
  /\ created <= 1
  /\ (env = "browser" /\ Len(inv) > 0) => worker = "live" /\ created = 1
  /\ \A k \in DOMAIN inv : inv[k].posts > 0 => inv[k].target = 1
  /\ terminated = 0

\* Two compressImage calls have each posted their request, to the one
\* worker constructed.
C17_Witness ==
  /\ Len(inv) = 2
  /\ inv[1].posts = 1
  /\ inv[2].posts = 1
  /\ created = 1

\* C18: destroy can be called at any moment; it terminates a worker only
\* when one is held, so every worker constructed is terminated at most once
\* and the handle is null exactly when every worker constructed has been
\* terminated; a compressImage call after destroy constructs a new worker
\* and posts to that one.
C18_DestroyIdempotent ==
  /\ [](/\ ENABLED destroy
        /\ terminated <= created
        /\ worker = "live" => created = terminated + 1
        /\ worker = "null" => created = terminated
        /\ \A k \in DOMAIN inv : inv[k].posts > 0 => inv[k].target >= 1 /\ inv[k].target <= created)
  /\ [][ /\ terminated' # terminated =>
              worker = "live" /\ worker' = "null" /\ terminated' = terminated + 1
         /\ (worker = "live" /\ worker' = "null") => terminated' = terminated + 1
         /\ (worker = "null" /\ worker' = "live") => created' = created + 1
         /\ \A k \in DOMAIN inv' :
              (k \in DOMAIN inv /\ inv'[k].posts # inv[k].posts) =>
                worker = "live" /\ inv'[k].target = created
       ]_vars

\* After a destroy, the second compressImage call has constructed a second
\* worker and posted its request to it; that worker was destroyed too.
C18_Witness ==
  /\ created = 2
  /\ terminated = 2
  /\ worker = "null"
  /\ Len(inv) = 2
  /\ inv[2].posts = 1
  /\ inv[2].target = 2

\* C19: when the worker cannot be created, no item is attempted and no
\* result is pushed: the batch does not produce a result sequence.
C19_NoWorkerIsFatal ==
  (mode = "image" /\ env # "browser") => Len(inv) = 0 /\ imgResults = <<>>

\* Items submitted to the image compressor by the batch under way.
RECURSIVE MediaBefore(_)
MediaBefore(i) == IF i = 0 THEN 0 ELSE Len(extractMediaFiles(pptFiles[i])) + MediaBefore(i - 1)

\* C20: the request of a compressImage call is posted at most once, and
\* each item of a batch is submitted by one call only: call k of an image
\* batch is for files[k], and there are never more calls than items begun.
C20_NoRetry ==
  /\ \A k \in DOMAIN inv : inv[k].posts <= 1
  /\ mode = "image" =>
       /\ Len(inv) <= Len(imgFiles)
       /\ Len(inv) \in {imgIdx, imgIdx + 1}
       /\ \A k \in DOMAIN inv : inv[k].file = imgFiles[k]
  /\ mode = "ppt" =>
       /\ Len(inv) <= MediaBefore(Len(pptFiles))
       /\ pptPc = "images" => Len(inv) \in {MediaBefore(pptIdx) + imgIdx, MediaBefore(pptIdx) + imgIdx + 1}

\* A batch of two images has returned; the first timed out after its
\* request was posted, and each of the two was posted once.
C20_Witness ==
  /\ mode = "image"
  /\ imgPc = "done"
  /\ Len(inv) = 2
  /\ imgResults[1].error = TimeoutError
  /\ inv[1].posts = 1
  /\ inv[2].posts = 1

\* ---------------------------------------------------------------- C27
\* The results the three batches have collected and the result of the call
\* being awaited, once it resolved.
ReportedResults ==
  {imgResults[i] : i \in DOMAIN imgResults} \cup {pptResults[i] : i \in DOMAIN pptResults}
    \cup {aResults[i] : i \in DOMAIN aResults}
    \cup (IF imgPromise.state = "resolved" THEN {imgPromise.result} ELSE {})
    \cup (IF aPromise.state = "resolved" THEN {aPromise.result} ELSE {})
    \cup (IF pptOutcome.state = "resolved" THEN {pptOutcome.result} ELSE {})

\* t tenths is (originalSize - size) / originalSize * 100 rounded to one
\* decimal: no number of tenths is nearer to the exact percentage.
IsRatioOf(t, original, size) ==
  LET d == (original - size) * 1000 - t * original
  IN 2 * (IF d < 0 THEN 0 - d ELSE d) <= original

\* C27: a successful result with originalSize > 0 reports the ratio
\* (originalSize - size) / originalSize * 100 rounded to one decimal,
\* negative when the output is larger than the input; a failed result
\* reports the ratio 0.
C27_RatioOfSizes ==
  \A r \in ReportedResults :
    /\ (r.error = NoError /\ r.originalSize > 0) =>
         /\ r.compressionRatio.kind = "number"
         /\ r.compressionRatio.decimals = 1
         /\ IsRatioOf(r.compressionRatio.tenths, r.originalSize, r.size)
         /\ r.size > r.originalSize => r.compressionRatio.tenths < 0
    /\ r.error # NoError => r.compressionRatio.kind = "number" /\ r.compressionRatio.tenths = 0

\* An image batch holds a result larger than its input, with a negative
\* ratio, and a failed result.
C27_Witness ==
  /\ mode = "image"
  /\ \E i \in DOMAIN imgResults :
       /\ imgResults[i].error = NoError
       /\ imgResults[i].size > imgResults[i].originalSize
       /\ imgResults[i].originalSize > 0
       /\ imgResults[i].compressionRatio.tenths = -1000
  /\ \E i \in DOMAIN imgResults : imgResults[i].error # NoError

\* ---------------------------------------------------------------- C29
\* compressPPT resolved for the archive the batch is at, which holds at
\* least one media member.
RepackReturned ==
  /\ mode = "ppt"
  /\ pptPc = "resume"
  /\ pptOutcome.state = "resolved"
  /\ Len(extractMediaFiles(pptFiles[pptIdx + 1])) >= 1

\* C29: for an archive with at least one media member that can be rebuilt,
\* compressPPT returns the rebuilt archive as the payload, without an error
\* and with size equal to the size of the rebuilt archive, whether or not
\* that is larger than the original.
C29_RepackedAlwaysReturned ==
  RepackReturned =>
    LET f == pptFiles[pptIdx + 1]
        r == pptOutcome.result
    IN /\ r.error = NoError
       /\ r.blob.kind = "zip"
       /\ r.blob.id = f.id
       /\ r.size = r.blob.size
       /\ r.zip = repackEntries(f.zip, pptCompressed)
       /\ r.originalSize = f.size

\* compressPPT returned a rebuilt archive that is larger than its input.
C29_Witness ==
  /\ RepackReturned
  /\ pptOutcome.result.blob.kind = "zip"
  /\ pptOutcome.result.size > pptOutcome.result.originalSize

\* ---------------------------------------------------------------- C21
\* The worker answered the request it was given.
Answered == mode = "worker" /\ job.state = "answered"

\* The worker handed the input back: the blob it posted is the one it was
\* given, it decoded nothing, drew nothing and encoded nothing.
PassedThrough ==
  /\ job.out.kind = "result"
  /\ job.out.blob = job.blob
  /\ ~job.calls.decoded
  /\ job.calls.blobOptions = NoSettings

\* C21: an item is passed through exactly when its MIME type is in the
\* pass-through list or its file name ends in .svg, .tiff, .tif or .emf;
\* then the worker returns the input bytes unchanged, the size reported is
\* the original size and outputFormat is the (sub)type detected of the
\* source.
C21_PassThrough ==
  Answered =>
    LET name == toLowerCase(job.settings.originalName)
        listed == \/ job.blob.type \in passThroughFormats
                  \/ \E sfx \in {<<".", "s", "v", "g">>, <<".", "t", "i", "f", "f">>,
                                 <<".", "t", "i", "f">>, <<".", "e", "m", "f">>} : endsWith(name, sfx)
    IN /\ PassedThrough <=> listed
       /\ listed =>
            /\ job.out.blob.size = job.out.originalSize
            /\ job.out.originalSize = job.blob.size
            /\ job.out.outputFormat = job.blob.type[2]
            /\ job.out.width = 0
            /\ job.out.height = 0

\* A file named B.SVG whose type the browser did not know was passed
\* through, although JPEG output was requested.
C21_Witness ==
  /\ Answered
  /\ PassedThrough
  /\ job.settings.originalName = <<"B", ".", "S", "V", "G">>
  /\ job.blob.type = <<"application", "octet-stream">>
  /\ job.settings.format = "jpeg"

\* ---------------------------------------------------------------- C22
\* The worker decoded the picture and posted an encoding of it.
Encoded == Answered /\ job.out.kind = "result" /\ job.calls.decoded

\* C22: when the worker reports hasTransparency and the requested format is
\* 'jpeg' or 'jpg', the output format is 'png'; in every other case that is
\* not a pass-through the output format is the requested one.
C22_TransparencyOverridesJpeg ==
  Encoded =>
    /\ job.out.outputFormat =
         IF job.out.hasTransparency /\ job.settings.format \in {"jpeg", "jpg"}
           THEN "png" ELSE job.settings.format
    /\ job.calls.blobOptions.type = <<"image", job.out.outputFormat>>

\* A PNG with a transparent pixel was requested as JPEG and came out as PNG.
C22_Witness ==
  /\ Encoded
  /\ job.picture.alpha
  /\ job.settings.format = "jpeg"
  /\ job.out.hasTransparency
  /\ job.out.outputFormat = "png"

\* ---------------------------------------------------------------- C23
\* C23: the quality given to the encoder is clamp(quality, 0.1, 1.0) times
\* the mode's factor (normal or absent 1.0, aggressive 0.8, maximum 0.6), so
\* it lies in [0.06, 1.0]; no quality is given when the output is png.
C23_EncoderQuality ==
  Encoded =>
    LET q == job.settings.quality
        c == IF q < 100 THEN 100 ELSE IF q > 1000 THEN 1000 ELSE q
        factor == IF job.settings.mode = "aggressive" THEN 8
                  ELSE IF job.settings.mode = "maximum" THEN 6 ELSE 10
        opts == job.calls.blobOptions
    IN IF job.out.outputFormat = "png"
         THEN "quality" \notin DOMAIN opts
         ELSE /\ "quality" \in DOMAIN opts
              /\ opts.quality * 10 = c * factor
              /\ opts.quality >= 60
              /\ opts.quality <= 1000

\* Quality 1.5 in mode maximum reached the WebP encoder as 0.6.
C23_Witness ==
  /\ Encoded
  /\ job.out.outputFormat = "webp"
  /\ job.settings.quality = 1500
  /\ job.settings.mode = "maximum"
  /\ job.calls.blobOptions.quality = 600

\* ---------------------------------------------------------------- C24
\* C24: the white background is filled only when the final output format is
\* lossy and the picture has no transparency: never with transparency,
\* never for png output.
C24_FillOnlyOpaqueLossy ==
  (Encoded /\ job.calls.filled) =>
    /\ job.out.outputFormat \in {"jpeg", "jpg", "webp"}
    /\ ~job.out.hasTransparency
    /\ ~(job.picture.alpha /\ isPNG(job.blob.type, job.settings.originalName))

\* An opaque picture was filled with white before it was drawn for JPEG.
C24_Witness ==
  /\ Encoded
  /\ job.calls.filled
  /\ job.out.outputFormat = "jpeg"
  /\ ~job.out.hasTransparency

\* ---------------------------------------------------------------- C25
Min(a, b) == IF a < b THEN a ELSE b

\* scale, a fraction, is at most 1 and more than 0.
ScaleInUnit(sc) == sc[1] > 0 /\ sc[1] <= sc[2]

\* C25: for a source of at least 1 x 1, limits of at least 1 and a scale in
\* (0, 1], the output is at least 1 x 1 and within the source's size and
\* the limits (never upscaled); a source within the limits at scale 1 keeps
\* its size.
C25_SizeWithinLimits ==
  (Encoded /\ job.settings.maxWidth >= 1 /\ job.settings.maxHeight >= 1 /\ ScaleInUnit(job.settings.scale)) =>
    /\ job.out.width >= 1
    /\ job.out.width <= Min(job.picture.width, job.settings.maxWidth)
    /\ job.out.height >= 1
    /\ job.out.height <= Min(job.picture.height, job.settings.maxHeight)
    /\ (/\ job.picture.width <= job.settings.maxWidth
        /\ job.picture.height <= job.settings.maxHeight
        /\ job.settings.scale = <<1, 1>>) =>
         job.out.width = job.picture.width /\ job.out.height = job.picture.height

\* A 3 x 3 picture limited to a width of 2 came out 2 x 2.
C25_Witness ==
  /\ Encoded
  /\ job.picture.width = 3 /\ job.picture.height = 3
  /\ job.settings.maxWidth = 2 /\ job.settings.maxHeight = 3 /\ job.settings.scale = <<1, 1>>
  /\ job.out.width = 2 /\ job.out.height = 2

\* ---------------------------------------------------------------- C26
\* C26: a limit of 0 means no limit; with both limits 0 the output size is
\* the source size times scale.
C26_ZeroLimitIsUnbounded ==
  (Encoded /\ job.settings.maxWidth = 0 /\ job.settings.maxHeight = 0) =>
    /\ job.out.width = scaled(<<job.picture.width, 1>>, job.settings.scale)
    /\ job.out.height = scaled(<<job.picture.height, 1>>, job.settings.scale)

\* ---------------------------------------------------------------- C30
\* C30: a target format the canvas has no encoder for ('auto', 'pptx')
\* yields an error on the item's result, never an output encoded in another
\* format.
C30_UnsupportedFormatIsAnError ==
  (Answered /\ job.calls.decoded /\ job.picture.decodable /\ job.settings.format \in {"auto", "pptx"}) =>
    /\ job.out.kind = "error"
    /\ job.calls.blobOptions = NoSettings

\* ---------------------------------------------------------------- C28
\* cs is the settings of one call on file f: originalSize and originalName
\* are the file's, every other key is the call's setting where the caller
\* gave one and the compressor's option otherwise.
IsMergeOf(cs, f, given, opts) ==
  /\ DOMAIN cs = DOMAIN opts \cup DOMAIN given \cup {"originalSize", "originalName"}
  /\ cs.originalSize = f.size
  /\ cs.originalName = f.name
  /\ \A k \in DOMAIN cs \ {"originalSize", "originalName"} :
       cs[k] = IF k \in DOMAIN given THEN given[k] ELSE opts[k]

\* o2 is o1 with the fields of some newOptions overridden and the others kept.
IsUpdateOf(o2, o1) ==
  \E n \in NewOptions :
    /\ DOMAIN o2 = DOMAIN o1 \cup DOMAIN n
    /\ \A k \in DOMAIN o2 : o2[k] = IF k \in DOMAIN n THEN n[k] ELSE o1[k]

\* C28: no compression call changes the compressor's options or the
\* settings object it was given; the settings of a call are the options
\* overridden by that call's settings, with originalSize and originalName
\* always the file's; only updateOptions changes the options, overriding
\* the fields given and keeping the others.
C28_OptionsChangeOnlyByUpdate ==
  [][/\ settings' = settings
     /\ options' # options =>
          /\ UNCHANGED <<imgVars, pptVars, audioVars, hostVars>>
          /\ mode \in {"image", "ppt", "audio"}
          /\ IsUpdateOf(options'[mode], options[mode])
          /\ \A c \in {"image", "ppt", "audio"} \ {mode} :
               IF c = "image" /\ mode = "ppt"
                 THEN /\ options'.image.format = "webp"
                      /\ \A k \in {"quality", "maxWidth", "maxHeight", "scale", "mode"} :
                           options'.image[k] = options'.ppt[k]
                 ELSE options'[c] = options[c]
     /\ Len(inv') > Len(inv) =>
          /\ options' = options
          /\ IsMergeOf(inv'[Len(inv')].settings, inv'[Len(inv')].file,
                       IF mode = "ppt" THEN settings @@ options.ppt ELSE settings, options.image)
     /\ (aSettings' # aSettings /\ aSettings' # NoSettings) =>
          /\ options' = options
          /\ IsMergeOf(aSettings', aFiles[aIdx + 1], settings, options.audio)
     /\ \A k \in DOMAIN inv : inv'[k].settings = inv[k].settings
    ]_vars

\* The batch was given settings that name a format, an originalSize and an
\* originalName; updateOptions was called between its two items.  Both
\* calls took the format from the settings and the sizes from their files,
\* the second call saw the updated quality, and the options still hold
\* their own format.
C28_Witness ==
  /\ mode = "image"
  /\ Len(inv) = 2
  /\ "originalSize" \in DOMAIN settings
  /\ inv[1].settings.originalSize = inv[1].file.size
  /\ inv[2].settings.originalSize = inv[2].file.size
  /\ inv[1].settings.format = "jpeg"
  /\ inv[2].settings.format = "jpeg"
  /\ inv[1].settings.quality = 900
  /\ inv[2].settings.quality = 500
  /\ options.image.format = "webp"

\* ---------------------------------------------------------------- C31
\* The name n with the marker inserted immediately before its extension.
MarkedName(n) == SubSeq(n, 1, Len(n) - 1) \o <<"_compressed", n[Len(n)]>>

\* C31: a successful compressPPT names its output as the input with
\* '_compressed' immediately before the file extension, whatever the input
\* name (a '.pptx' earlier in the name, another letter case); an error
\* result keeps the input name.
C31_MarkerBeforeExtension ==
  \A i \in DOMAIN pptResults :
    IF pptResults[i].error = NoError
      THEN pptResults[i].name = MarkedName(pptFiles[i].name)
      ELSE pptFiles[i].isFile => pptResults[i].name = pptFiles[i].name

\* ---------------------------------------------------------------- C32
\* The compressImage calls made for file f.
CallsFor(f) == {k \in DOMAIN inv : inv[k].file = f}

\* Blob d is an outcome of compressing f: the worker's encoding for a
\* request made for f, f's own bytes handed back, or the empty blob of a
\* failed item.
OutcomeOf(d, f) ==
  \/ d = EmptyBlob
  \/ d = OrigBlob(f)
  \/ d.kind = "enc" /\ d.id \in CallsFor(f)

\* C32: compressPPT submits every non-directory entry under ppt/media/
\* exactly once, and what it writes back at a path is the compression
\* outcome of the member that was at that path, never that of another
\* member, whatever members succeed, fail or time out.
C32_MemberOutcomeAtItsPath ==
  (mode = "ppt" /\ pptPc = "resume" /\ pptOutcome.state = "resolved" /\ Len(pptMedia) > 0) =>
    /\ pptMedia = extractMediaFiles(pptFiles[pptIdx + 1])
    /\ \A j \in 1..Len(pptMedia) :
         /\ Cardinality(CallsFor(pptMedia[j].file)) = 1
         /\ OutcomeOf(DataAt(pptOutcome.result.zip, pptMedia[j].path), pptMedia[j].file)

\* ---------------------------------------------------------------- C36
\* C36: the members of a PPTX are encoded with the image compressor's own
\* target format 'webp': the container format 'pptx' of the PPTX options
\* never reaches the image worker as the target format.
C36_WebpReachesTheWorker ==
  mode = "ppt" =>
    \A k \in DOMAIN inv : inv[k].posts > 0 => inv[k].settings.format = "webp"

\* ---------------------------------------------------------------- C37
\* C37: a message listener is attached to the worker only for a call that
\* is outstanding; with no call outstanding none is attached, whether the
\* calls ended by result, error, read failure or timeout.
C37_NoListenerOutlivesItsCall ==
  \A k \in listeners : k = imgCur /\ imgPc = "await" /\ imgPromise.state = "none"

\* ---------------------------------------------------------------- C38
\* C38: a compressImage call that its timeout has rejected posts no request
\* to the worker afterwards, even when the file is read only after the
\* timeout fired.
C38_NoPostAfterTimeout ==
  [][\A k \in DOMAIN inv : inv'[k].posts # inv[k].posts => inv[k].armed]_vars

\* The calls of the log that obtained a compressor.
Succeeded == {i \in DOMAIN page.calls : page.calls[i].got # 0}

\* C35: on the audio page at most one UniversalAudioCompressor is ever
\* constructed, whatever the order of the load effect's and handleCompress's
\* calls of initializeCompressor, and every caller that succeeds receives
\* that one instance, the one compressorRef holds.
C35_OneCompressor ==
  mode = "page" =>
    /\ page.constructed <= 1
    /\ page.compressorRef = page.constructed
    /\ \A i \in Succeeded : page.calls[i].got = page.compressorRef /\ page.constructed = 1

\* handleCompress constructed the compressor before the effect of an earlier
\* render ran, and both callers hold the same instance.
C35_Witness ==
  /\ mode = "page"
  /\ Len(page.calls) >= 2
  /\ page.calls[1].by = "handleCompress"
  /\ page.calls[2].by = "effect"
  /\ page.calls[1].got = 1
  /\ page.calls[2].got = 1

\* C39: a failed initialisation is not permanent: a call of
\* initializeCompressor or handleCompress made once lamejs has loaded
\* obtains an initialised compressor, also after an earlier call failed
\* because lamejs was not there yet.
C39_InitialisationRecovers ==
  mode = "page" => \A i \in DOMAIN page.calls : page.calls[i].lamejs => page.calls[i].got # 0

\* The compressAudio calls that succeeded so far: the results kept without
\* an error, and the call whose promise resolved and is still awaited.
SuccessfulCalls ==
  Len(SelectSeq(aResults, LAMBDA r : r.error = NoError))
    + (IF aPc = "resume" /\ aPromise.state = "resolved" THEN 1 ELSE 0)

\* The step settles the compressAudio call under way.
CallSettles(st) == aPromise.state = "none" /\ aPromise'.state = st

IsOne(x) == x[1] = x[2]
InUnit(x) == x[2] > 0 /\ 0 <= x[1] /\ x[1] <= x[2]
\* x <= y for two fractions; the products are not formed where the
\* denominators agree.
ProgressLeq(x, y) == IF x[2] = y[2] THEN x[1] <= y[1] ELSE x[1] * y[2] <= y[1] * x[2]

\* C40: the values compressAudio passes to onProgress never decrease and lie
\* in [0, 1]; the value 1 is passed only by a call that succeeds, as its
\* last notification, and a call that fails never passes 1.
C40_ProgressOfCompressAudio ==
  mode = "compressAudio" =>
    /\ \A i \in DOMAIN onProgress : InUnit(onProgress[i])
    /\ \A i, j \in DOMAIN onProgress : i < j => ProgressLeq(onProgress[i], onProgress[j])
    /\ \A i \in DOMAIN onProgress :
         IsOne(onProgress[i]) => i = Len(onProgress) /\ aPromise.state = "resolved"
    /\ aPromise.state = "resolved" => onProgress # <<>> /\ IsOne(onProgress[Len(onProgress)])

\* A call encoded more than one block and succeeded.
C40_Witness ==
  /\ mode = "compressAudio"
  /\ aPromise.state = "resolved"
  /\ Len(onProgress) >= 12

\* What the worker has posted for its request so far.
Posted == IF job.state \in {"none", "received"} THEN <<>> ELSE job.posted
IsProgress(m) == "type" \in DOMAIN m /\ m.type = "progress"
Terminals == {i \in DOMAIN Posted : ~IsProgress(Posted[i])}
HandlerReturned == job.state \in {"answered", "audioDone"}

\* C33: for a request a worker posts exactly one terminal message (its
\* result, 'complete', or an error), on the pass-through path and on every
\* failure path too: none while the handler runs, one once it has returned,
\* never a second.  The audio worker posts its progress messages before the
\* terminal message only, with values between 5 and 90 that never decrease.
C33_OneTerminalMessage ==
  mode = "worker" =>
    /\ Cardinality(Terminals) = (IF HandlerReturned THEN 1 ELSE 0)
    /\ \A i \in Terminals : i = Len(Posted)
    /\ \A i \in DOMAIN Posted \ Terminals :
         /\ ProgressLeq(<<5, 1>>, Posted[i].progress)
         /\ ProgressLeq(Posted[i].progress, <<90, 1>>)
         /\ \A k \in DOMAIN Posted \ Terminals :
              i < k => ProgressLeq(Posted[i].progress, Posted[k].progress)

\* The audio worker encoded several blocks and posted 'complete' behind its
\* progress messages.
C33_Witness ==
  /\ mode = "worker"
  /\ job.state = "audioDone"
  /\ Len(job.posted) >= 10
  /\ job.posted[Len(job.posted)].type = "complete"

====
